---- MODULE Spec2Model ----
(***************************************************************************)
(* Authenticated transport layer of the GOTRS Python SDK:                  *)
(*   sdk/python/gotrs_sdk/auth.py         JWTAuth / OAuth2Auth / APIKeyAuth *)
(*                                        / NoAuth                          *)
(*   sdk/python/gotrs_sdk/http_client.py  HTTPClient                        *)
(*                                                                         *)
(* The code runs on asyncio: one step of the model is the code a coroutine *)
(* runs between two suspension points (await of the refresh lock, of the   *)
(* refresh procedure, of the transport's request, of asyncio.sleep).       *)
(*                                                                         *)
(* Spec            one caller, one logical request (or one direct call of  *)
(*                 refresh()), a transport that may do anything            *)
(* SpecConcurrent  NumCallers callers at the same time on one refreshable  *)
(*                 credential, a transport that answers or times out       *)
(* SpecResponse    one response that _make_request_with_retries hands on:  *)
(*                 what _extract_data, _handle_error and download_file     *)
(*                 make of it                                              *)
(* SpecRequest     one verb up to the transport: set_auth, _build_url,     *)
(*                 _prepare_headers, upload_file's header strip            *)
(* SpecUrl         get with any path against any base URL: _build_url      *)
(* SpecLifecycle   one client as a scoped context: __aenter__, __aexit__,  *)
(*                 close()                                                 *)
(* SpecRefresh     one result of the refresh procedure applied to the      *)
(*                 credential by the try block of refresh()                *)
(***************************************************************************)
EXTENDS Integers, Sequences, FiniteSets, TLC

(* ------------------------------ bounds -------------------------------- *)
\* number of coroutines that use one client / one authenticator
NumCallers == 2
\* largest value of HTTPClient.retries explored
MaxRetries == 3
\* the wall clock runs from 0 to MaxClock seconds
MaxClock == 1
\* longest JSON list in a response body
MaxItems == 2
\* longest path given to a verb, in segments
MaxSegments == 2
\* most calls of close() and of __aexit__ explored for one client
MaxCloses == 2

(* ------------------------- program constants -------------------------- *)
\* Python's None (an absent token, expiry or header)
NoneVal == -1
\* the one-minute buffer of is_expired
Buffer == 60

Callers == 1..NumCallers

\* the token carried by the credential the client was constructed with
InitialToken == 0

AuthTypes == {"none", "api-key", "jwt", "oauth2"}

\* a verb of HTTPClient, or a direct call of Authenticator.refresh()
Modes == {"request", "refresh"}

(* --------------------------- transport stub --------------------------- *)
Statuses == {200, 304, 400, 401, 403, 404, 429, 500, 503}

\* what response.json() of an error body gives: a mapping, a JSON value that
\* is not a mapping (a list, a string, a number), or no JSON at all
BodyShapes == {"mapping", "nonmapping", "nonjson"}

\* a key that a JSON mapping or the header block does not hold, an argument
\* that is not passed
NoKey == "<absent>"

\* an outcome of self._client.request: a response with its status, the shape
\* of its body and its Retry-After header, or an httpx exception
Outcome(k, s, b) ==
    [kind |-> k, status |-> s, body |-> b, retry_after |-> NoKey]
Response(s, b) == Outcome("response", s, b)
TimeoutOutcome == Outcome("timeout", 0, "nonjson")
NetworkOutcome == Outcome("network", 0, "nonjson")
\* an httpx exception that is neither TimeoutException nor NetworkError
\* (ProtocolError, TooManyRedirects, DecodingError, ...)
TransportOutcome == Outcome("transport", 0, "nonjson")

\* what the history keeps of an outcome: its kind and status
Seen(o) == [kind |-> o.kind, status |-> o.status]
NoOutcome == [kind |-> "none", status |-> 0]

Outcomes ==
    {Response(s, b) : s \in Statuses, b \in BodyShapes}
        \cup {TimeoutOutcome, NetworkOutcome, TransportOutcome}

\* the stub transport of the concurrent scenario: it answers or times out
StubOutcomes == {Response(200, "mapping"), TimeoutOutcome}

\* the Retry-After header: absent, an integer, not an integer
RetryAfterValues == {NoKey, "30", "abc"}

\* int(s): the integer s denotes; NoneVal stands for ValueError
int(s) == IF s = "30" THEN 30 ELSE NoneVal

\* a 429 response that carries a Retry-After header
RateLimited(b, retry_after) ==
    [Response(429, b) EXCEPT !.retry_after = retry_after]

(* ----------------------------- helpers -------------------------------- *)
\* mutation: 2 * attempt for 2 ** attempt
Double(n) == 2 * n
\* 2 ** n
RECURSIVE Pow2(_)
Pow2(n) == IF n = 0 THEN 1 ELSE 2 * Pow2(n - 1)

(* ---------------------------- state ----------------------------------- *)
VARIABLES
    auth,          \* HTTPClient.auth: the active Authenticator's fields
    refresh_lock,  \* Authenticator._refresh_lock: the callers that hold it
    client,        \* HTTPClient's attributes: configuration, active auth
    transport,     \* the outcomes the underlying transport can produce
    callers,       \* per coroutine: position, locals of the verb, history
    now,           \* datetime.now(timezone.utc).timestamp()
    refreshCalls,  \* history: invocations of the refresh procedure so far
    allInside,     \* history: all callers were inside refresh() at one time
    call,          \* the verb called and its model_class argument
    response,      \* the httpx.Response the retry loop handed on
    result,        \* what the verb made of it: a return value or an exception
    request,       \* a verb's path and headers, and what it hands the transport
    lifecycle,     \* scopes entered and left, calls of self._client.aclose()
    applied        \* a refresh result and the credential before and after it

\* the variables of one call seen apart from the callers
exchange == <<call, response, result, request, lifecycle, applied>>

vars == <<auth, refresh_lock, client, transport, callers, now, refreshCalls,
          allInside, call, response, result, request, lifecycle, applied>>

(* --------------------------- Authenticator ---------------------------- *)
\* a key that the refresh procedure's result does not hold
Absent == -2
\* an expires_at string that datetime.fromisoformat rejects
Unparsable == -3

\* expiry values around the buffer: Buffer is expired from second 0 on,
\* Buffer + MaxClock from the clock's last second on, Buffer + MaxClock + 1
\* never within the clock's range
ExpiryValues == {Buffer, Buffer + MaxClock, Buffer + MaxClock + 1}

\* the expiries the refresh procedure issues: still ahead of the buffer when
\* issued, unless issued in the clock's last second
IssuedExpiries == {Buffer + MaxClock, Buffer + MaxClock + 1}

Refreshable(a) == a.auth_type \in {"jwt", "oauth2"}

\* mutation: the buffer's boundary is not expired
is_expiredStrict(a, t) ==
    Refreshable(a) /\ a.expires_at # NoneVal /\ a.expires_at < t + Buffer

is_expired(a, t) ==
    IF ~Refreshable(a) THEN FALSE
    ELSE IF a.expires_at = NoneVal THEN FALSE
    ELSE a.expires_at <= t + Buffer

\* the credential value of the header the authenticator produces
get_auth_headers(a) ==
    IF a.auth_type = "none" THEN NoneVal ELSE a.token

\* mutation: the refresh token is not looked at
CanRefreshWithoutToken(a) == a.refresh_function
\* refresh(): "if not self.refresh_function or not self.refresh_token"
CanRefresh(a) == a.refresh_function /\ a.refresh_token # NoneVal

\* what the k-th invocation of the caller-supplied refresh procedure can do:
\* raise, or return a mapping with or without each key
RefreshResults(k) ==
    {[raises |-> TRUE, access_token |-> Absent, refresh_token |-> Absent,
      expires_at |-> Absent]}
    \cup
    [raises : {FALSE}, access_token : {Absent, k}, refresh_token : {Absent, k},
     expires_at : {Absent, Unparsable} \cup IssuedExpiries]

\* mutation: result.get("refresh_token") without the previous token
ApplyResultForgetsRefreshToken(a, res) ==
    IF res.raises \/ res.access_token = Absent
    THEN [auth |-> a, ok |-> FALSE]
    ELSE LET a1 == [a EXCEPT !.token = res.access_token,
                             !.refresh_token =
                                 IF res.refresh_token = Absent
                                 THEN NoneVal ELSE res.refresh_token]
         IN  IF res.expires_at = Absent THEN [auth |-> a1, ok |-> TRUE]
             ELSE IF res.expires_at = Unparsable
                  THEN [auth |-> a1, ok |-> FALSE]
                  ELSE [auth |-> [a1 EXCEPT !.expires_at = res.expires_at],
                        ok |-> TRUE]
\* mutation: a refresh uses the refresh procedure up
ApplyResultDropsProcedure(a, res) ==
    IF res.raises \/ res.access_token = Absent
    THEN [auth |-> a, ok |-> FALSE]
    ELSE LET a1 == [a EXCEPT !.token = res.access_token,
                             !.refresh_function = FALSE,
                             !.refresh_token =
                                 IF res.refresh_token = Absent
                                 THEN a.refresh_token ELSE res.refresh_token]
         IN  IF res.expires_at = Absent THEN [auth |-> a1, ok |-> TRUE]
             ELSE IF res.expires_at = Unparsable
                  THEN [auth |-> a1, ok |-> FALSE]
                  ELSE [auth |-> [a1 EXCEPT !.expires_at = res.expires_at],
                        ok |-> TRUE]
\* the body of the try block of refresh(): the fields are assigned one after
\* the other, so an exception keeps the assignments made before it
ApplyResult(a, res) ==
    IF res.raises \/ res.access_token = Absent
    THEN [auth |-> a, ok |-> FALSE]
    ELSE LET a1 == [a EXCEPT !.token = res.access_token,
                             !.refresh_token =
                                 IF res.refresh_token = Absent
                                 THEN a.refresh_token ELSE res.refresh_token]
         IN  IF res.expires_at = Absent THEN [auth |-> a1, ok |-> TRUE]
             ELSE IF res.expires_at = Unparsable
                  THEN [auth |-> a1, ok |-> FALSE]
                  ELSE [auth |-> [a1 EXCEPT !.expires_at = res.expires_at],
                        ok |-> TRUE]

(* asyncio.Lock of the authenticator *)
Waiters == {c \in Callers : callers[c].pc = "acquire"}

\* mutation: the lock never excludes anyone
LockFreeNoExclusion == TRUE
\* Lock.locked() is false
LockFree == refresh_lock = {}

\* mutation: an exception leaves the lock held
ReleaseNothing(c) == refresh_lock
\* "async with self._refresh_lock" is left by a return or an exception
Release(c) == refresh_lock \ {c}

\* mutation: acquire() and release() without try/finally, so that a
\* CancelledError passes the release
UnwindKeepsLock(c) == refresh_lock
\* CancelledError unwinds the coroutine through "async with"
Unwind(c) == Release(c)

(* ---------------------------- HTTPClient ------------------------------ *)
is_success(status) == 200 <= status /\ status < 300

\* the if/elif chain of _handle_error: the kind raised for a status
Classify(status) ==
    IF status = 404 THEN "NotFoundError"
    ELSE IF status = 401 THEN "UnauthorizedError"
    ELSE IF status = 403 THEN "ForbiddenError"
    ELSE IF status = 429 THEN "RateLimitError"
    ELSE IF 500 <= status /\ status < 600 THEN "ServerError"
    ELSE "GotrsError"

\* the exception _handle_error(response) leaves with: a body that is not
\* JSON is replaced by {"error": response.text}; on a JSON body that is not a
\* mapping, error_data.get(...) raises AttributeError before the chain
handle_error(o) ==
    IF o.body = "nonmapping" THEN "AttributeError" ELSE Classify(o.status)

\* the classified failure kinds of exceptions.py
Taxonomy ==
    {"GotrsError", "ValidationError", "NetworkError", "TimeoutError",
     "AuthenticationError", "NotFoundError", "UnauthorizedError",
     "ForbiddenError", "RateLimitError", "ServerError", "ConfigurationError",
     "WebSocketError"}

\* a coroutine that has not called anything yet
NewCaller(m, p) ==
    [pc |-> p, mode |-> m,
     prepared |-> FALSE, headers |-> NoneVal,     \* _prepare_headers' result
     attempt |-> 0, last_exception |-> "None",   \* locals of the retry loop
     error |-> "None", response |-> 0,           \* what the verb ended with
     made |-> 0,            \* history: calls of self._client.request
     sleeps |-> <<>>,       \* history: the delays given to asyncio.sleep
     inflight |-> 0,        \* transport requests awaiting their outcome
     timers |-> 0,          \* asyncio.sleep calls that have not returned
     last |-> NoOutcome,    \* history: outcome of the latest attempt
     retried |-> {},        \* history: outcomes that were followed by a sleep
     invoked |-> 0,         \* history: refresh procedure calls it made
     answered |-> 0,        \* history: outcomes the transport delivered
     checked |-> FALSE,     \* history: _prepare_headers called is_expired()
     was_expired |-> FALSE, \* history: what that call returned
     refresh_returned |-> FALSE,  \* history: refresh() returned normally
     refresh_failed |-> FALSE,    \* history: refresh() raised
     generic |-> FALSE,     \* history: the statement after the loop's
                            \* "raise last_exception" was reached
     sent |-> {},           \* history: the headers the attempts were given
     retry_after |-> NoKey, \* history: Retry-After of the latest outcome
     reported |-> NoneVal,  \* the raised exception's retry_after attribute
     reentered |-> FALSE]   \* history: its refresh procedure called a verb

Raise(r, e) == [r EXCEPT !.pc = "raised", !.error = e]

\* mutation: every attempt reads the headers from the authenticator again
RequestReadsCredential(r, n) ==
    [r EXCEPT !.pc = "attempt", !.attempt = n, !.made = @ + 1,
              !.inflight = @ + 1, !.sent = @ \cup {get_auth_headers(auth)}]
\* "await self._client.request(method, url, headers=headers, ...)" of
\* iteration n of the retry loop: headers is the loop's parameter
Request(r, n) ==
    [r EXCEPT !.pc = "attempt", !.attempt = n, !.made = @ + 1,
              !.inflight = @ + 1, !.sent = @ \cup {r.headers}]

\* mutation: the delay does not grow
BackoffConstant(r) ==
    [r EXCEPT !.pc = "sleep", !.sleeps = Append(@, 1),
              !.timers = @ + 1, !.retried = @ \cup {r.last}]
\* mutation: "continue" without awaiting the sleep
BackoffSkipsSleep(r) ==
    Request([r EXCEPT !.sleeps = Append(@, Pow2(r.attempt)),
                      !.retried = @ \cup {r.last}], r.attempt + 1)
\* mutation: a 429 response's Retry-After, when it parses, is the delay
BackoffHonoursRetryAfter(r) ==
    [r EXCEPT !.pc = "sleep",
              !.sleeps = Append(@, IF int(r.retry_after) # NoneVal
                                   THEN int(r.retry_after)
                                   ELSE Pow2(r.attempt)),
              !.timers = @ + 1, !.retried = @ \cup {r.last}]
\* "delay = 2 ** attempt; await asyncio.sleep(delay); continue"
Backoff(r) ==
    [r EXCEPT !.pc = "sleep", !.sleeps = Append(@, Pow2(r.attempt)),
              !.timers = @ + 1, !.retried = @ \cup {r.last}]

\* mutation: the loop has no last iteration
AttemptsRemainAlways(r, retries) == TRUE
\* mutation: one iteration too many
AttemptsRemainOffByOne(r, retries) == r.attempt <= retries
\* "for attempt in range(self.retries + 1)": attempt is not the last one
AttemptsRemain(r, retries) == r.attempt < retries

\* mutation: last_exception is not looked at
AfterLoopIgnoresException(r) ==
    Raise([r EXCEPT !.generic = TRUE], "GotrsError")
\* the statements after the for loop: "if last_exception: raise
\* last_exception", then 'raise GotrsError("Request failed after all retry
\* attempts")'
AfterLoop(r) ==
    IF r.last_exception # "None" THEN Raise(r, r.last_exception)
    ELSE Raise([r EXCEPT !.generic = TRUE], "GotrsError")

\* "self._handle_error(response)" in the retry loop: the exception it
\* leaves with and, on a RateLimitError, the retry_after it was given
Surface(r, o) ==
    LET e == handle_error(o) IN
    [Raise(r, e) EXCEPT !.reported =
        IF e = "RateLimitError" /\ o.retry_after # NoKey
        THEN int(o.retry_after) ELSE NoneVal]

\* one iteration of _make_request_with_retries from the transport's outcome
\* on: return, raise, or sleep before the next iteration
OnOutcome(r0, o, retries) ==
    LET r == [r0 EXCEPT !.inflight = @ - 1, !.last = Seen(o),
                        !.retry_after = o.retry_after] IN
    IF o.kind = "response" THEN
        IF is_success(o.status)
        THEN [r EXCEPT !.pc = "returned", !.response = o.status]
        ELSE IF 400 <= o.status /\ o.status < 500 /\ o.status # 429
        THEN Surface(r, o)
        ELSE IF AttemptsRemain(r, retries) THEN Backoff(r)
        ELSE Surface(r, o)
    ELSE IF o.kind = "timeout" THEN
        LET r1 == [r EXCEPT !.last_exception = "TimeoutError"] IN
        IF AttemptsRemain(r1, retries) THEN Backoff(r1)
        ELSE AfterLoop(r1)
    ELSE IF o.kind = "network" THEN
        LET r1 == [r EXCEPT !.last_exception = "NetworkError"] IN
        IF AttemptsRemain(r1, retries) THEN Backoff(r1)
        ELSE AfterLoop(r1)
    ELSE Raise(r, "httpx.TransportError")

\* _prepare_headers: "if self.auth.is_expired()" has been evaluated
Checked(r, expired) == [r EXCEPT !.checked = TRUE, !.was_expired = expired]

\* _prepare_headers after the expiry check, then the first iteration of
\* "for attempt in range(self.retries + 1)", if the range has one
BeginRequest(r, a) ==
    LET r1 == [r EXCEPT !.prepared = TRUE, !.headers = get_auth_headers(a)]
    IN  IF client.retries + 1 > 0 THEN Request(r1, 0) ELSE AfterLoop(r1)

\* refresh() has returned to its caller: the verb goes on; a direct caller
\* reads get_auth_headers() and ends
AfterRefresh(r0, a) ==
    LET r == [r0 EXCEPT !.refresh_returned = TRUE] IN
    IF r.mode = "refresh"
    THEN [r EXCEPT !.pc = "returned", !.headers = get_auth_headers(a)]
    ELSE BeginRequest(r, a)

\* mutation: the verb swallows the failure of refresh() and goes on
RefreshFailureSwallowed(r, a) ==
    BeginRequest([r EXCEPT !.refresh_failed = TRUE], a)
\* refresh() has raised AuthenticationError: nothing between refresh() and the
\* caller of the verb catches it
RefreshFailed(r, a) ==
    Raise([r EXCEPT !.refresh_failed = TRUE], "AuthenticationError")

(* ------------------- responses, bodies and exceptions ------------------ *)
\* dict.get(key, default)
Get(v, default) == IF v = NoKey THEN default ELSE v

\* the objects of a body: two that model_class.model_validate accepts, one
\* that it rejects
Objects == {"valid", "other", "invalid"}

Lists == UNION {[1..n -> Objects] : n \in 0..MaxItems}

\* JSON values: null, an object, a list of objects
Values ==
    {[kind |-> "null", items |-> <<>>]}
        \cup [kind : {"object"}, items : [1..1 -> Objects]]
        \cup [kind : {"list"}, items : Lists]
NoValue == [kind |-> "absent", items |-> <<>>]

\* mutation: the value of `success` is not looked at
TruthyAny(v) == TRUE
\* the values of the `success` key: JSON true, false, null
Truthy(v) == v = "true"

\* the text of a body that is not JSON
Texts == {"", "oops"}

\* a JSON mapping with or without the keys the client reads; value says
\* whether the mapping itself is an object the target shape accepts
MappingBodies ==
    [shape : {"mapping"}, text : {""},
     value : [kind : {"object"}, items : [1..1 -> Objects]],
     success : {NoKey, "true", "false", "null"},
     data : {NoValue} \cup Values,
     error : {NoKey, "boom"}, message : {NoKey, "msg"}, code : {NoKey, "E42"}]

\* the body, parsed as JSON, as the client reads it
Body(shape, text, value) ==
    [shape |-> shape, text |-> text, value |-> value, success |-> NoKey,
     data |-> NoValue, error |-> NoKey, message |-> NoKey, code |-> NoKey]

Bodies ==
    MappingBodies
        \cup {Body("nonmapping", "", v) :
                 v \in {w \in Values : w.kind # "object"}}
        \cup {Body("nonjson", t, NoValue) : t \in Texts}

\* the statuses of the responses handled: Statuses and one more 2xx
HandledStatuses == Statuses \cup {201}

Responses ==
    [status_code : HandledStatuses, retry_after : RetryAfterValues,
     body : Bodies]

\* the verbs: get, post, put, patch, delete and upload_file end alike
Verbs == {"get", "download_file"}
Calls == [verb : Verbs, model_class : BOOLEAN]

(* exceptions.py: the attributes an exception carries *)
Exception(k) ==
    [kind |-> k, message |-> "None", status_code |-> NoneVal,
     code |-> "None", retry_after |-> NoneVal]

\* GotrsError.__init__; status_code and code default to None
GotrsError(message, status_code, code) ==
    [kind |-> "GotrsError", message |-> message,
     status_code |-> status_code, code |-> Get(code, "None"),
     retry_after |-> NoneVal]

NotFoundError(message) ==
    [GotrsError(message, 404, "NOT_FOUND") EXCEPT !.kind = "NotFoundError"]

UnauthorizedError(message) ==
    [GotrsError(message, 401, "UNAUTHORIZED")
         EXCEPT !.kind = "UnauthorizedError"]

ForbiddenError(message) ==
    [GotrsError(message, 403, "FORBIDDEN") EXCEPT !.kind = "ForbiddenError"]

RateLimitError(message, retry_after) ==
    [GotrsError(message, 429, "RATE_LIMITED")
         EXCEPT !.kind = "RateLimitError", !.retry_after = retry_after]

\* kwargs.setdefault("status_code", 500); kwargs.setdefault("code",
\* "SERVER_ERROR"): the defaults apply to arguments that are not passed
ServerError(message, status_code, code) ==
    [GotrsError(message, IF status_code = Absent THEN 500 ELSE status_code,
                Get(code, "SERVER_ERROR"))
         EXCEPT !.kind = "ServerError"]

\* the class an exception class is derived from
Base(k) ==
    IF k \in {"UnauthorizedError", "ForbiddenError"} THEN "AuthenticationError"
    ELSE IF k \in Taxonomy \ {"GotrsError"} THEN "GotrsError"
    ELSE "Exception"

\* isinstance(e, b) for an exception e of class k
isinstance(k, b) == b \in {k, Base(k), Base(Base(k)), "Exception"}

(* what a verb ends with *)
NoException == Exception("None")

Returned(of, value, validated) ==
    [outcome |-> "returned", exception |-> NoException, of |-> of,
     value |-> value, validated |-> validated]

Raised(e) ==
    [outcome |-> "raised", exception |-> e, of |-> "nothing",
     value |-> NoValue, validated |-> FALSE]

NoResult ==
    [outcome |-> "none", exception |-> NoException, of |-> "nothing",
     value |-> NoValue, validated |-> FALSE]

\* _handle_error(response): the exception it leaves with
HandleError(resp) ==
    LET b == resp.body
        \* error_data of a body that is not JSON:
        \* {"error": response.text or "Unknown error"}
        error == IF b.shape # "nonjson" THEN b.error
                 ELSE IF b.text = "" THEN "Unknown error" ELSE b.text
        message == Get(b.message, Get(error, "Unknown error"))
        code == Get(b.code, "")
        retry_after == IF resp.retry_after = NoKey THEN NoneVal
                       ELSE int(resp.retry_after)
        kind == handle_error(Response(resp.status_code, b.shape))
    IN  IF kind = "AttributeError" THEN Exception("AttributeError")
        ELSE IF kind = "NotFoundError" THEN NotFoundError(message)
        ELSE IF kind = "UnauthorizedError" THEN UnauthorizedError(message)
        ELSE IF kind = "ForbiddenError" THEN ForbiddenError(message)
        ELSE IF kind = "RateLimitError"
             THEN RateLimitError(message, retry_after)
        ELSE IF kind = "ServerError"
             THEN ServerError(message, resp.status_code, code)
        ELSE GotrsError(message, resp.status_code, code)

\* model_class.model_validate(item): the instance it constructs; "error"
\* stands for pydantic's ValidationError
model_validate(item) ==
    IF item = "valid" THEN "Model(valid)"
    ELSE IF item = "other" THEN "Model(other)"
    ELSE "error"

\* mutation: the list is built back to front
validateReversed(v) ==
    [v EXCEPT !.items = [i \in DOMAIN v.items |->
                            model_validate(v.items[Len(v.items) + 1 - i])]]
\* "[model_class.model_validate(item) for item in result_data]" for a list,
\* "model_class.model_validate(result_data)" for any other value
validate(v) ==
    [v EXCEPT !.items = [i \in DOMAIN v.items |-> model_validate(v.items[i])]]

\* mutation: every mapping is taken for an envelope
IsEnvelopeAnyMapping(b) == b.shape = "mapping"
\* 'isinstance(data, dict) and "success" in data'
IsEnvelope(b) == b.shape = "mapping" /\ b.success # NoKey

\* _extract_data(response, model_class)
extract_data(resp, model_class) ==
    LET b == resp.body IN
    IF b.shape = "nonjson" THEN Returned("text", NoValue, FALSE)
    ELSE IF IsEnvelope(b) /\ ~Truthy(b.success)
    THEN Raised(GotrsError(Get(b.error, "API request failed"),
                           resp.status_code, NoKey))
    ELSE LET of == IF IsEnvelope(b) /\ b.data # NoValue THEN "data"
                   ELSE "body"
             result_data == IF of = "data" THEN b.data ELSE b.value
         IN  IF model_class /\ result_data.kind # "null"
             THEN LET validated == validate(result_data) IN
                  IF \E i \in DOMAIN validated.items :
                        validated.items[i] = "error"
                  THEN Raised(Exception("pydantic.ValidationError"))
                  ELSE Returned(of, validated, TRUE)
             ELSE Returned(of, result_data, FALSE)

(* ----------------------- requests: URL and headers --------------------- *)
Origin == "https://x.test"
\* the host of a path that is a URL of its own
OtherOrigin == "https://evil.test"

\* base_url arguments of the constructor: a host with or without a
\* directory, with or without a trailing slash
BaseUrls == [origin : {Origin}, dir : {<<>>, <<"api">>}, slash : BOOLEAN]

\* base_url.rstrip("/")
rstrip(u) == [u EXCEPT !.slash = FALSE]

PathSegments == {"a", "b", ".."}

\* path arguments of a verb: leading slashes, then either a URL with a scheme
\* and a host of its own or a relative reference, then segments
Paths ==
    [slashes : 0..2, absolute : BOOLEAN,
     segments : UNION {[1..n -> PathSegments] : n \in 0..MaxSegments}]

\* path.lstrip("/")
lstrip(p) == [p EXCEPT !.slashes = 0]

\* RFC 3986 resolution of relative segments against a directory: ".." removes
\* the last segment, if there is one
RECURSIVE Resolve(_, _)
Resolve(dir, segs) ==
    IF segs = <<>> THEN dir
    ELSE LET s == Head(segs) IN
         Resolve(IF s # ".." THEN Append(dir, s)
                 ELSE IF dir = <<>> THEN dir
                 ELSE SubSeq(dir, 1, Len(dir) - 1),
                 Tail(segs))

\* urllib.parse.urljoin(base + "/", url): a url with a scheme, or one that
\* starts with "//", replaces the base's host; one that starts with "/"
\* replaces the base's directory; any other is resolved in the directory
urljoin(base, p) ==
    IF p.absolute \/ p.slashes >= 2
    THEN [origin |-> OtherOrigin, segments |-> p.segments]
    ELSE IF p.slashes = 1
    THEN [origin |-> base.origin, segments |-> Resolve(<<>>, p.segments)]
    ELSE [origin |-> base.origin, segments |-> Resolve(base.dir, p.segments)]

\* _build_url(path) without params
build_url(base_url, path) == urljoin(base_url, lstrip(path))

NoUrl == [origin |-> NoKey, segments |-> <<>>]

(* header mappings *)
\* the keys of the header dicts: names as they are spelled
HeaderNames ==
    {"Content-Type", "content-type", "Authorization", "authorization",
     "X-API-Key"}

\* a header value: its text and the token it carries, if any
HeaderValue(text, token) == [text |-> text, token |-> token]
NoHeader == HeaderValue(NoKey, NoneVal)
NoHeaders == [n \in HeaderNames |-> NoHeader]

\* the headers argument of a verb
CallerHeaders == [HeaderNames -> {NoHeader, HeaderValue("caller", NoneVal)}]

\* mutation: a key that is present keeps its value
updateKeepsOld(d, other) ==
    [n \in HeaderNames |-> IF d[n] # NoHeader THEN d[n] ELSE other[n]]
\* dict.update(other)
update(d, other) ==
    [n \in HeaderNames |-> IF other[n] # NoHeader THEN other[n] ELSE d[n]]

\* get_auth_headers() as a mapping
auth_headers(a) ==
    IF a.auth_type = "api-key"
    THEN [NoHeaders EXCEPT ![a.header_name] = HeaderValue("key", a.token)]
    ELSE IF a.auth_type = "jwt"
    THEN [NoHeaders EXCEPT
             !["Authorization"] = HeaderValue("Bearer", get_auth_headers(a))]
    ELSE IF a.auth_type = "oauth2"
    THEN [NoHeaders EXCEPT
             !["Authorization"] =
                 HeaderValue(a.token_type, get_auth_headers(a))]
    ELSE NoHeaders

\* _prepare_headers(headers) once the credential is not expired
prepare_headers(headers, a) ==
    update(update([NoHeaders EXCEPT !["Content-Type"] =
                       HeaderValue("application/json", NoneVal)],
                  headers),
           auth_headers(a))

\* mutation: nothing is removed
stripNothing(headers) == headers
\* upload_file: 'if "Content-Type" in request_headers: del ...'
strip(headers) == [headers EXCEPT !["Content-Type"] = NoHeader]

\* the verbs as far as their requests differ
RequestVerbs == Verbs \cup {"upload_file"}

\* the headers a verb passes to _make_request_with_retries
request_headers(verb, headers, a) ==
    IF verb = "upload_file" THEN strip(prepare_headers(headers, a))
    ELSE prepare_headers(headers, a)

\* Authenticator as HTTPClient.__init__ defaults it: "auth or NoAuth()"
DefaultAuth ==
    [auth_type |-> "none", token |-> InitialToken, refresh_token |-> NoneVal,
     expires_at |-> NoneVal, refresh_function |-> FALSE,
     header_name |-> "X-API-Key", token_type |-> "Bearer"]

\* a verb called with a path and headers, before its first statement
NewRequest(verb, path, headers) ==
    [verb |-> verb, path |-> path, headers |-> headers,
     pc |-> "start",                \* start, refreshing, prepared, raised
     url |-> NoUrl,                 \* url = self._build_url(path)
     final_headers |-> NoHeaders,   \* what _prepare_headers returned
     request_headers |-> NoHeaders, \* what the retry loop is given
     error |-> "None",
     checked |-> "none",    \* history: the object is_expired() was called on
     source |-> "none",     \* history: the object the headers were read from
     previous |-> DefaultAuth]  \* the authenticator set_auth replaced while
                                \* the verb awaited its refresh()

RootPath == [slashes |-> 1, absolute |-> FALSE, segments |-> <<"a">>]

\* no verb was called
NoRequest ==
    [NewRequest("get", RootPath, NoHeaders) EXCEPT !.pc = "idle"]

\* url and headers of a verb whose _prepare_headers has returned
Prepared(q, base_url, a) ==
    [q EXCEPT !.pc = "prepared",
              !.url = build_url(base_url, q.path),
              !.final_headers = prepare_headers(q.headers, a),
              !.request_headers = request_headers(q.verb, q.headers, a)]

\* refresh() raised AuthenticationError inside _prepare_headers
Failed(q, base_url) ==
    [q EXCEPT !.pc = "raised", !.url = build_url(base_url, q.path),
              !.error = "AuthenticationError"]

\* mutation: the constructor's defaults come back
set_authResetsRetries(cl) == [cl EXCEPT !.auth = "set", !.retries = 3]
\* set_auth(auth): the client's attributes after it
set_auth(cl) == [cl EXCEPT !.auth = "set"]

\* the authenticators the SDK can construct
ConfiguredAuths ==
    {a \in [auth_type : AuthTypes, token : {InitialToken},
            refresh_token : {NoneVal, InitialToken},
            expires_at : {NoneVal} \cup ExpiryValues,
            refresh_function : BOOLEAN,
            header_name : {"X-API-Key", "Content-Type"},
            token_type : {"Bearer", "MAC"}] :
        /\ a.auth_type # "api-key" => a.header_name = "X-API-Key"
        /\ a.auth_type # "oauth2" => a.token_type = "Bearer"
        /\ ~Refreshable(a) => /\ a.refresh_token = NoneVal
                              /\ a.expires_at = NoneVal
                              /\ ~a.refresh_function}

(* one application of a refresh result *)
NoRefreshResult ==
    [raises |-> FALSE, access_token |-> Absent, refresh_token |-> Absent,
     expires_at |-> Absent]

NoApplied ==
    [done |-> FALSE, before |-> DefaultAuth, result |-> NoRefreshResult,
     error |-> "None"]

(* configuration of HTTPClient.__init__ *)
Configs(bases, retries) ==
    [base_url : {rstrip(u) : u \in bases}, timeout : {30}, retries : retries,
     user_agent : {"gotrs-python-sdk/1.0.0"}, debug : {FALSE},
     auth : {"constructed"}]  \* self.auth: the Authenticator object given to
                              \* the constructor, or one given to set_auth

DefaultBase == {[origin |-> Origin, dir |-> <<>>, slash |-> FALSE]}

(* the client as a scoped context *)
NoLifecycle ==
    [entered |-> 0,       \* scopes entered and not yet left
     exits |-> <<>>,      \* history: __aexit__ calls, TRUE for an exception
     close_calls |-> 0,   \* history: explicit calls of close()
     aclose_calls |-> 0,  \* history: calls of self._client.aclose()
     released |-> 0,      \* history: times the transport was released
     idempotent |-> TRUE] \* the library's aclose() ignores a repeated call

\* close(): "await self._client.aclose()", whatever was called before; what a
\* repeated aclose() does is the library's business, HTTPClient keeps no
\* record of having closed
close(l) ==
    [l EXCEPT !.aclose_calls = @ + 1,
              !.released = IF l.idempotent /\ l.aclose_calls > 0 THEN @
                           ELSE @ + 1]

(* ------------------------------ actions ------------------------------- *)
Set(c, r) == callers' = [callers EXCEPT ![c] = r]

InsideRefresh(cs) ==
    \A d \in Callers : cs[d].pc \in {"acquire", "refreshing"}

\* the block under "async with self._refresh_lock", entered by c: the second
\* expiry check, then the call of the refresh procedure up to its first await
LockedSection(c, r) ==
    IF ~is_expired(auth, now)
    THEN /\ Set(c, AfterRefresh(r, auth))
         /\ refresh_lock' = Release(c)
         /\ UNCHANGED refreshCalls
    ELSE /\ Set(c, [r EXCEPT !.pc = "refreshing", !.invoked = @ + 1])
         /\ refresh_lock' = refresh_lock \cup {c}
         /\ refreshCalls' = refreshCalls + 1

\* Authenticator.refresh() up to its first suspension point
EnterRefresh(c, r) ==
    IF ~Refreshable(auth)
    THEN /\ Set(c, AfterRefresh(r, auth))
         /\ UNCHANGED <<refresh_lock, refreshCalls>>
    ELSE IF ~CanRefresh(auth)
    THEN /\ Set(c, RefreshFailed(r, auth))
         /\ UNCHANGED <<refresh_lock, refreshCalls>>
    ELSE IF ~LockFree \/ Waiters # {}
    THEN /\ Set(c, [r EXCEPT !.pc = "acquire"])
         /\ UNCHANGED <<refresh_lock, refreshCalls>>
    ELSE LockedSection(c, r)

\* a caller calls a verb (get, post, ...) or refresh(): everything up to the
\* first suspension point
Start(c) ==
    /\ callers[c].pc = "start"
    /\ IF callers[c].mode = "request"
       THEN IF ~is_expired(auth, now)
            THEN /\ Set(c, BeginRequest(Checked(callers[c], FALSE), auth))
                 /\ UNCHANGED <<refresh_lock, refreshCalls>>
            ELSE EnterRefresh(c, Checked(callers[c], TRUE))
       ELSE EnterRefresh(c, callers[c])
    /\ allInside' = (allInside \/ InsideRefresh(callers'))
    /\ UNCHANGED <<auth, client, transport, now>>
    /\ UNCHANGED exchange

\* a caller that waited for the refresh lock gets it
Acquire(c) ==
    /\ callers[c].pc = "acquire"
    /\ LockFree
    /\ LockedSection(c, callers[c])
    /\ UNCHANGED <<auth, client, transport, now, allInside>>
    /\ UNCHANGED exchange

\* the refresh procedure awaited by the lock holder completes
RefreshReturn(c) ==
    /\ callers[c].pc = "refreshing"
    /\ \E res \in RefreshResults(refreshCalls) :
          LET out == ApplyResult(auth, res) IN
          /\ auth' = out.auth
          /\ Set(c, IF out.ok THEN AfterRefresh(callers[c], out.auth)
                    ELSE RefreshFailed(callers[c], out.auth))
    /\ refresh_lock' = Release(c)
    /\ UNCHANGED <<client, transport, now, refreshCalls, allInside>>
    /\ UNCHANGED exchange

\* the refresh procedure awaited by the lock holder calls a verb of the
\* same client, in the holder's task: _prepare_headers evaluates
\* "self.auth.is_expired()" and awaits "self.auth.refresh()", whose
\* "async with self._refresh_lock" waits while the lock is held; otherwise
\* the procedure goes on
Reenter(c) ==
    /\ callers[c].pc = "refreshing"
    /\ ~callers[c].reentered
    /\ LET r == [callers[c] EXCEPT !.reentered = TRUE] IN
       IF is_expired(auth, now) /\ CanRefresh(auth) /\ ~LockFree
       THEN Set(c, [r EXCEPT !.pc = "acquire"])
       ELSE Set(c, r)
    /\ UNCHANGED <<auth, refresh_lock, client, transport, now, refreshCalls,
                   allInside>>
    /\ UNCHANGED exchange

\* the transport's request awaited by the retry loop completes
Respond(c) ==
    /\ callers[c].pc = "attempt"
    /\ \E o \in transport :
          Set(c, OnOutcome([callers[c] EXCEPT !.answered = @ + 1], o,
                           client.retries))
    /\ UNCHANGED <<auth, refresh_lock, client, transport, now, refreshCalls,
                   allInside>>
    /\ UNCHANGED exchange

\* asyncio.sleep returns: "continue" starts the next iteration
Wake(c) ==
    /\ callers[c].pc = "sleep"
    /\ Set(c, Request([callers[c] EXCEPT !.timers = @ - 1],
                      callers[c].attempt + 1))
    /\ UNCHANGED <<auth, refresh_lock, client, transport, now, refreshCalls,
                   allInside>>
    /\ UNCHANGED exchange

\* the caller's task is cancelled at the await it is suspended in:
\* CancelledError unwinds the coroutine, leaving "async with" on the way
Cancel(c) ==
    /\ callers[c].pc \in {"acquire", "refreshing", "attempt", "sleep"}
    /\ Set(c, [callers[c] EXCEPT !.pc = "cancelled", !.inflight = 0,
                                 !.timers = 0])
    /\ refresh_lock' = Unwind(c)
    /\ UNCHANGED <<auth, client, transport, now, refreshCalls, allInside>>
    /\ UNCHANGED exchange

\* a second passes
Tick ==
    /\ now < MaxClock
    /\ now' = now + 1
    /\ UNCHANGED <<auth, refresh_lock, client, transport, callers,
                   refreshCalls, allInside>>
    /\ UNCHANGED exchange

\* the variables of the callers, their authenticator and their transport
engine ==
    <<auth, refresh_lock, client, transport, callers, now, refreshCalls,
      allInside>>

\* get, post, put, patch, delete, upload_file: the response is successful,
\* "return self._extract_data(response, model_class)"
ExtractData ==
    /\ result = NoResult
    /\ call.verb # "download_file"
    /\ is_success(response.status_code)
    /\ result' = extract_data(response, call.model_class)
    /\ UNCHANGED <<call, response, request, lifecycle, applied>>
    /\ UNCHANGED engine

\* download_file: the response is successful, "return response.content"
ReturnContent ==
    /\ result = NoResult
    /\ call.verb = "download_file"
    /\ is_success(response.status_code)
    /\ result' = Returned("content", NoValue, FALSE)
    /\ UNCHANGED <<call, response, request, lifecycle, applied>>
    /\ UNCHANGED engine

\* the retry loop does not try again after a response that is not
\* successful: "self._handle_error(response)"
SurfaceError ==
    /\ result = NoResult
    /\ ~is_success(response.status_code)
    /\ result' = Raised(HandleError(response))
    /\ UNCHANGED <<call, response, request, lifecycle, applied>>
    /\ UNCHANGED engine

\* set_auth(auth), called before the verb: another Authenticator object
\* becomes the active one (one swap is explored; a second one is alike)
SetAuth ==
    /\ request.pc = "start"
    /\ client.auth = "constructed"
    /\ \E a \in ConfiguredAuths : auth' = a
    /\ client' = set_auth(client)
    /\ UNCHANGED <<refresh_lock, transport, callers, now, refreshCalls,
                   allInside>>
    /\ UNCHANGED exchange

\* a verb called by the only task that uses the client: _build_url, then
\* _prepare_headers up to its return or to the await of the refresh
\* procedure, then upload_file's removal of Content-Type
CallVerb ==
    /\ request.pc = "start"
    /\ LET q == [request EXCEPT !.checked = client.auth] IN
       IF ~is_expired(auth, now)
       THEN /\ request' = [Prepared(q, client.base_url, auth)
                               EXCEPT !.source = client.auth]
            /\ UNCHANGED refreshCalls
       ELSE IF ~CanRefresh(auth)
       THEN /\ request' = Failed(q, client.base_url)
            /\ UNCHANGED refreshCalls
       ELSE /\ request' = [q EXCEPT
                              !.pc = "refreshing",
                              !.url = build_url(client.base_url, request.path)]
            /\ refreshCalls' = refreshCalls + 1
    /\ UNCHANGED <<auth, refresh_lock, client, transport, callers, now,
                   allInside>>
    /\ UNCHANGED <<call, response, result, lifecycle, applied>>

\* set_auth(auth), called by another task while the verb awaits the
\* refresh procedure: self.auth is another object from now on, and refresh()
\* goes on with the object it was called on
SwapAuth ==
    /\ request.pc = "refreshing"
    /\ client.auth = request.checked
    /\ client.auth = "constructed"
    /\ \E a \in ConfiguredAuths : auth' = a
    /\ client' = set_auth(client)
    /\ request' = [request EXCEPT !.previous = auth]
    /\ UNCHANGED <<refresh_lock, transport, callers, now, refreshCalls,
                   allInside>>
    /\ UNCHANGED <<call, response, result, lifecycle, applied>>

\* the refresh procedure awaited by that verb completes: the rest of
\* refresh(), which assigns to the object it was called on, and of
\* _prepare_headers, whose "self.auth.get_auth_headers()" reads self.auth
\* again
RefreshDone ==
    /\ request.pc = "refreshing"
    /\ \E res \in RefreshResults(refreshCalls) :
          LET swapped == client.auth # request.checked
              out == ApplyResult(IF swapped THEN request.previous ELSE auth,
                                 res)
              active == IF swapped THEN auth ELSE out.auth
              q == IF swapped THEN [request EXCEPT !.previous = out.auth]
                   ELSE request
          IN  /\ auth' = active
              /\ request' = IF out.ok
                            THEN [Prepared(q, client.base_url, active)
                                     EXCEPT !.source = client.auth]
                            ELSE Failed(q, client.base_url)
    /\ UNCHANGED <<refresh_lock, client, transport, callers, now,
                   refreshCalls, allInside>>
    /\ UNCHANGED <<call, response, result, lifecycle, applied>>

\* "async with client:" is entered: __aenter__ returns self
Enter ==
    /\ lifecycle.entered + Len(lifecycle.exits) < MaxCloses
    /\ lifecycle' = [lifecycle EXCEPT !.entered = @ + 1]
    /\ UNCHANGED <<call, response, result, request, applied>>
    /\ UNCHANGED engine

\* "async with client:" is left, normally or by an exception: __aexit__
\* awaits close() whatever exc_type is
Exit ==
    /\ lifecycle.entered > 0
    /\ \E exc \in BOOLEAN :
          lifecycle' = close([lifecycle EXCEPT !.entered = @ - 1,
                                               !.exits = Append(@, exc)])
    /\ UNCHANGED <<call, response, result, request, applied>>
    /\ UNCHANGED engine

\* close() is called by the user
Close ==
    /\ lifecycle.close_calls < MaxCloses
    /\ lifecycle' = close([lifecycle EXCEPT !.close_calls = @ + 1])
    /\ UNCHANGED <<call, response, result, request, applied>>
    /\ UNCHANGED engine

\* the try block of refresh() is given the refresh procedure's outcome
ApplyRefresh ==
    /\ ~applied.done
    /\ \E res \in RefreshResults(1) :
          LET out == ApplyResult(auth, res) IN
          /\ auth' = out.auth
          /\ applied' =
                 [done |-> TRUE, before |-> auth, result |-> res,
                  error |-> IF out.ok THEN "None"
                            ELSE RefreshFailed(NewCaller("refresh",
                                                         "refreshing"),
                                               out.auth).error]
    /\ UNCHANGED <<refresh_lock, client, transport, callers, now,
                   refreshCalls, allInside>>
    /\ UNCHANGED <<call, response, result, request, lifecycle>>

\* the steps of a client that one caller uses: its lock is never contended
NextSingle ==
    \/ \E c \in Callers :
          \/ Start(c)
          \/ RefreshReturn(c)
          \/ Respond(c)
          \/ Wake(c)
          \/ Cancel(c)
    \/ Tick

Next ==
    \/ \E c \in Callers :
          \/ Start(c)
          \/ Acquire(c)
          \/ RefreshReturn(c)
          \/ Respond(c)
          \/ Wake(c)
          \/ Cancel(c)
    \/ Tick

\* the steps of a verb from the response on
NextResponse ==
    \/ ExtractData
    \/ ReturnContent
    \/ SurfaceError

\* the steps of a verb up to the transport
NextRequest ==
    \/ SetAuth
    \/ CallVerb
    \/ RefreshDone

\* the steps of a verb during which another task may call set_auth
NextSwap ==
    \/ CallVerb
    \/ SwapAuth
    \/ RefreshDone

\* the steps of a verb whose credential never expires
NextUrl == CallVerb

\* the steps of a client used as a scoped context and closed by hand
NextLifecycle ==
    \/ Enter
    \/ Exit
    \/ Close

NextRefresh == ApplyRefresh

\* the steps of callers whose refresh procedure may use the client
NextReentrant ==
    \E c \in Callers :
        \/ Start(c)
        \/ Acquire(c)
        \/ RefreshReturn(c)
        \/ Reenter(c)
        \/ Respond(c)
        \/ Wake(c)

\* the steps of a verb whose network calls and sleeps all complete
NextRetry ==
    \E c \in Callers :
        \/ Start(c)
        \/ Respond(c)
        \/ Wake(c)

(* --------------------------- initial states --------------------------- *)
\* no verb has a response in its hands
NoCall == [verb |-> "get", model_class |-> FALSE]
NoResponse ==
    [status_code |-> 0, retry_after |-> NoKey,
     body |-> Body("nonjson", "", NoValue)]

\* the authenticators a client can be constructed with
InitialAuths ==
    [auth_type : AuthTypes, token : {InitialToken},
     refresh_token : {NoneVal, InitialToken},
     expires_at : {NoneVal} \cup ExpiryValues,
     refresh_function : BOOLEAN,
     header_name : {"X-API-Key"},  \* APIKeyAuth.header_name
     token_type : {"Bearer"}]      \* OAuth2Auth.token_type

\* one caller makes one logical request through a client whose transport
\* may do anything
Init ==
    /\ auth \in InitialAuths
    /\ refresh_lock = {}
    /\ client \in Configs(DefaultBase, -1..MaxRetries)
    /\ transport = Outcomes
    /\ callers \in {[c \in Callers |->
                        IF c = 1 THEN NewCaller(m, "start")
                        ELSE NewCaller("request", "idle")] : m \in Modes}
    /\ now = 0
    /\ refreshCalls = 0
    /\ allInside = FALSE
    /\ call = NoCall
    /\ response = NoResponse
    /\ result = NoResult
    /\ request = NoRequest
    /\ lifecycle = NoLifecycle
    /\ applied = NoApplied

Spec == Init /\ [][NextSingle]_vars

\* NumCallers callers use, at the same time, one client whose JWT or OAuth2
\* credential has a refresh token and a refresh procedure and is expired or
\* about to expire; the transport answers or times out and one retry is
\* configured. The callers are interchangeable: the first k call refresh()
\* directly, the others call a verb
InitConcurrent ==
    /\ auth \in {a \in InitialAuths :
                    /\ Refreshable(a)
                    /\ CanRefresh(a)
                    /\ a.expires_at \in {Buffer, Buffer + MaxClock}}
    /\ refresh_lock = {}
    /\ client \in Configs(DefaultBase, {1})
    /\ transport = StubOutcomes
    /\ callers \in {[c \in Callers |->
                        NewCaller(IF c <= k THEN "refresh" ELSE "request",
                                  "start")] : k \in 0..NumCallers}
    /\ now = 0
    /\ refreshCalls = 0
    /\ allInside = FALSE
    /\ call = NoCall
    /\ response = NoResponse
    /\ result = NoResult
    /\ request = NoRequest
    /\ lifecycle = NoLifecycle
    /\ applied = NoApplied

SpecConcurrent == InitConcurrent /\ [][Next]_vars

\* _make_request_with_retries has handed on a response, or is about to
\* surface one, in a call of a verb with or without a model_class;
\* download_file takes no model_class
InitResponse ==
    /\ auth \in {a \in InitialAuths :
                    a.auth_type = "none" /\ a.refresh_token = NoneVal
                        /\ a.expires_at = NoneVal /\ ~a.refresh_function}
    /\ refresh_lock = {}
    /\ client \in Configs(DefaultBase, {0})
    /\ transport = {}
    /\ callers = [c \in Callers |-> NewCaller("request", "idle")]
    /\ now = 0
    /\ refreshCalls = 0
    /\ allInside = FALSE
    /\ call \in {k \in Calls : k.verb = "download_file" => ~k.model_class}
    /\ response \in Responses
    /\ result = NoResult
    /\ request = NoRequest
    /\ lifecycle = NoLifecycle
    /\ applied = NoApplied

SpecResponse == InitResponse /\ [][NextResponse]_vars

\* the parts of an engine that a scenario does not use
Unused ==
    /\ refresh_lock = {}
    /\ transport = {}
    /\ callers = [c \in Callers |-> NewCaller("request", "idle")]
    /\ refreshCalls = 0
    /\ allInside = FALSE
    /\ call = NoCall
    /\ response = NoResponse
    /\ result = NoResult

\* a verb is called with a path under the root and any headers, through a
\* client constructed with any authenticator
InitRequest ==
    /\ auth \in ConfiguredAuths
    /\ client \in Configs(DefaultBase, {0})
    /\ now = 0
    /\ request \in {NewRequest(v, RootPath, h) :
                       v \in RequestVerbs, h \in CallerHeaders}
    /\ lifecycle = NoLifecycle
    /\ applied = NoApplied
    /\ Unused

SpecRequest == InitRequest /\ [][NextRequest]_vars

\* a verb is called without headers of its own, through a client constructed
\* with any authenticator; another task may call set_auth
InitSwap ==
    /\ auth \in ConfiguredAuths
    /\ client \in Configs(DefaultBase, {0})
    /\ now = 0
    /\ request \in {NewRequest(v, RootPath, NoHeaders) : v \in RequestVerbs}
    /\ lifecycle = NoLifecycle
    /\ applied = NoApplied
    /\ Unused

SpecSwap == InitSwap /\ [][NextSwap]_vars

\* get is called with any path, through a client constructed with any base
\* URL and without credentials
InitUrl ==
    /\ auth = DefaultAuth
    /\ client \in Configs(BaseUrls, {0})
    /\ now = 0
    /\ request \in {NewRequest("get", p, NoHeaders) : p \in Paths}
    /\ lifecycle = NoLifecycle
    /\ applied = NoApplied
    /\ Unused

SpecUrl == InitUrl /\ [][NextUrl]_vars

\* a client just constructed, with any configuration
InitLifecycle ==
    /\ auth = DefaultAuth
    /\ client \in Configs(BaseUrls, -1..MaxRetries)
    /\ now = 0
    /\ request = NoRequest
    /\ lifecycle \in {[NoLifecycle EXCEPT !.idempotent = b] : b \in BOOLEAN}
    /\ applied = NoApplied
    /\ Unused

SpecLifecycle == InitLifecycle /\ [][NextLifecycle]_vars

\* refresh() of an expired JWT or OAuth2 credential that has a refresh token
\* and a refresh procedure has called the procedure
InitRefresh ==
    /\ now \in 0..MaxClock
    /\ auth \in {a \in ConfiguredAuths :
                    Refreshable(a) /\ CanRefresh(a) /\ is_expired(a, now)}
    /\ client \in Configs(DefaultBase, {0})
    /\ request = NoRequest
    /\ lifecycle = NoLifecycle
    /\ applied = NoApplied
    /\ Unused

SpecRefresh == InitRefresh /\ [][NextRefresh]_vars

\* the concurrent scenario with a refresh procedure that may call a verb of
\* the client it refreshes the credential of; nobody is cancelled. The
\* event loop runs a coroutine that is ready, the transport completes every
\* call, every sleep returns, and the refresh procedure, once nothing it
\* awaits is pending, returns or raises
FairReentrant ==
    \A c \in Callers :
        /\ WF_vars(Start(c))
        /\ WF_vars(Acquire(c))
        /\ WF_vars(RefreshReturn(c))
        /\ WF_vars(Respond(c))
        /\ WF_vars(Wake(c))

SpecReentrant ==
    InitConcurrent /\ [][NextReentrant]_vars /\ FairReentrant

\* the transport of the retry scenario: any outcome, and 429 responses with
\* a Retry-After header that is or is not an integer
RetryOutcomes ==
    Outcomes \cup {RateLimited(b, v) : b \in BodyShapes,
                                      v \in RetryAfterValues \ {NoKey}}

\* one caller calls a verb through a client without credentials, with any
\* number of retries configured
InitRetry ==
    /\ auth = DefaultAuth
    /\ refresh_lock = {}
    /\ client \in Configs(DefaultBase, -1..MaxRetries)
    /\ transport = RetryOutcomes
    /\ callers = [c \in Callers |->
                     IF c = 1 THEN NewCaller("request", "start")
                     ELSE NewCaller("request", "idle")]
    /\ now = 0
    /\ refreshCalls = 0
    /\ allInside = FALSE
    /\ call = NoCall
    /\ response = NoResponse
    /\ result = NoResult
    /\ request = NoRequest
    /\ lifecycle = NoLifecycle
    /\ applied = NoApplied

SpecRetry == InitRetry /\ [][NextRetry]_vars

\* the event loop runs a coroutine that is ready; the transport completes
\* every call and every asyncio.sleep returns
FairRetry ==
    \A c \in Callers :
        WF_vars(Start(c)) /\ WF_vars(Respond(c)) /\ WF_vars(Wake(c))

SpecRetryFair == SpecRetry /\ FairRetry

(* ============================ properties ============================== *)
R500 == [kind |-> "response", status |-> 500]
R200 == [kind |-> "response", status |-> 200]

\* the delays 1, 2, 4, ... of the first n backoffs
Delays(n) == [i \in 1..n |-> 2 ^ (i - 1)]

\* c's refresh() or header preparation ended without an error
RefreshedOk(c) ==
    /\ callers[c].refresh_returned
    /\ callers[c].pc \notin {"raised", "cancelled"} \/ callers[c].prepared

(* ------------------------------- C1 ----------------------------------- *)
\* C1: when all N >= 2 callers are inside refresh() of one expired JWT/OAuth2
\* authenticator at the same time (called directly or by header
\* preparation) and the refresh of each of them ends without an error, the
\* refresh procedure has been invoked exactly once in total and all callers
\* got the same refreshed access token from get_auth_headers().
C1_ExactlyOneRefresh ==
    (allInside /\ \A c \in Callers : RefreshedOk(c))
        => /\ refreshCalls = 1
           /\ \A c, d \in Callers : callers[c].headers = callers[d].headers
           /\ \A c \in Callers : callers[c].headers # InitialToken

(* ------------------------------- C2 ----------------------------------- *)
\* C2: at most one invocation of the authenticator's refresh procedure is in
\* progress in every reachable state: a caller that awaits the refresh
\* procedure holds the refresh lock, and never two callers hold the lock.
C2_OneRefreshInProgress ==
    /\ Cardinality(refresh_lock) <= 1
    /\ Cardinality({c \in Callers : callers[c].pc = "refreshing"}) <= 1
    /\ \A c \in Callers : callers[c].pc = "refreshing" => c \in refresh_lock

\* one caller awaits the refresh procedure while another waits for the lock
C2_Witness ==
    \E c, d \in Callers :
        /\ callers[c].pc = "refreshing"
        /\ c \in refresh_lock
        /\ callers[d].pc = "acquire"

(* ------------------------------- C3 ----------------------------------- *)
\* C3 (retry law): when the transport answered 500 on the first k attempts,
\* k < retries, and 200 on the next one, the request has returned that
\* response after exactly k + 1 network attempts and exactly k backoff
\* sleeps of 1, 2, 4, ..., 2^(k-1) time units, in that order.
C3_RetryLaw ==
    \A c \in Callers :
        LET r == callers[c]
            k == r.answered - 1
        IN  (/\ r.last = R200
             /\ r.retried \subseteq {R500}
             /\ k < client.retries
             /\ r.pc # "cancelled")
            => /\ r.pc = "returned"
               /\ r.response = 200
               /\ r.made = k + 1
               /\ r.inflight = 0 /\ r.timers = 0
               /\ r.sleeps = Delays(k)

\* two 500s, then 200
C3_Witness ==
    \E c \in Callers :
        /\ callers[c].pc = "returned"
        /\ callers[c].last = R200
        /\ callers[c].retried = {R500}
        /\ callers[c].answered = 3
        /\ callers[c].sleeps = <<1, 2>>

(* ------------------------------- C4 ----------------------------------- *)
ClientError(o) ==
    o.kind = "response" /\ 400 <= o.status /\ o.status < 500 /\ o.status # 429

\* C4 (no-retry law): once an attempt was answered with a status in
\* [400,500) other than 429, the request has raised the classified error of
\* that response, no sleep followed the response and no further attempt was
\* made, whatever the retry count and the attempts before it.
C4_NoRetryLaw ==
    \A c \in Callers :
        LET r == callers[c] IN
        ClientError(r.last)
            => /\ r.pc = "raised"
               /\ r.error = Classify(r.last.status)
               /\ r.made = r.answered
               /\ Len(r.sleeps) = r.answered - 1
               /\ r.inflight = 0 /\ r.timers = 0

\* the part of C4 that the code keeps: the request ends with an exception at
\* once, without a sleep and without a further attempt
NoRetryAfterClientError ==
    \A c \in Callers :
        LET r == callers[c] IN
        ClientError(r.last)
            => /\ r.pc = "raised"
               /\ r.made = r.answered
               /\ Len(r.sleeps) = r.answered - 1
               /\ r.inflight = 0 /\ r.timers = 0

(* ------------------------------- C5 ----------------------------------- *)
\* C5: with maximum retry count R (R >= 1), the engine never makes more than
\* R network attempts in total for one request.
C5_AtMostRAttempts ==
    \A c \in Callers :
        client.retries >= 1 => callers[c].made <= client.retries

\* C5 as amended: the engine never makes more than R + 1 network attempts for
\* one request (the first try and at most R retries), for any sequence of
\* transport outcomes.
C5_AtMostRPlusOneAttempts ==
    \A c \in Callers : callers[c].made <= client.retries + 1

\* the first try and all R retries were made, R >= 2
C5_Witness ==
    \E c \in Callers :
        /\ client.retries >= 2
        /\ callers[c].made = client.retries + 1
        /\ callers[c].answered = callers[c].made

(* ------------------------------- C6 ----------------------------------- *)
\* C6: the attempts of one request are strictly sequential: never two
\* transport requests of it are outstanding; a new attempt starts only when
\* the outcomes of all earlier attempts are known; and after a retryable
\* outcome the next attempt starts only in the step in which the backoff
\* sleep for that outcome returns, never while the sleep is pending.
C6_Sequential ==
    [][\A c \in Callers :
          LET r == callers[c]
              q == callers'[c]
          IN  /\ q.inflight <= 1
              /\ q.inflight = 1 => q.timers = 0
              /\ q.made # r.made
                    => /\ q.made = r.made + 1
                       /\ r.inflight = 0
                       /\ r.answered = r.made
                       /\ r.made > 0
                             => /\ r.pc = "sleep"
                                /\ r.timers = 1 /\ q.timers = 0
                                /\ Len(r.sleeps) = r.made]_vars

\* the third attempt is outstanding after two sleeps
C6_Witness ==
    \E c \in Callers :
        /\ callers[c].pc = "attempt"
        /\ callers[c].made = 3
        /\ callers[c].inflight = 1
        /\ Len(callers[c].sleeps) = 2

(* ------------------------------- C7 ----------------------------------- *)
Retryable(o) ==
    \/ o.kind \in {"timeout", "network"}
    \/ o.kind = "response" /\ (o.status = 429 \/ o.status >= 500)

\* C7: for every retryable outcome (429, status >= 500, timeout, network
\* failure) of 0-indexed attempt a, in any mix: when attempts remain the
\* engine sleeps exactly 2^a time units and the step that ends this sleep
\* makes attempt a + 1; after the final attempt it does not sleep.
C7_Backoff ==
    /\ [](\A c \in Callers :
            LET r == callers[c] IN
            (Retryable(r.last) /\ r.answered = r.made /\ r.pc # "cancelled")
                => IF r.attempt < client.retries
                   THEN /\ r.pc = "sleep"
                        /\ r.timers = 1
                        /\ r.sleeps = Delays(r.attempt + 1)
                   ELSE /\ r.pc = "raised"
                        /\ r.timers = 0
                        /\ r.sleeps = Delays(r.attempt))
    /\ [][\A c \in Callers :
            LET r == callers[c]
                q == callers'[c]
            IN  (r.pc = "sleep" /\ q.pc \notin {"sleep", "cancelled"})
                    => /\ q.pc = "attempt"
                       /\ q.attempt = r.attempt + 1
                       /\ q.made = r.made + 1
                       /\ q.sleeps = r.sleeps]_vars

\* the third sleep, of 4 time units, after a mix of retryable outcomes
C7_Witness ==
    \E c \in Callers :
        /\ callers[c].pc = "sleep"
        /\ callers[c].sleeps = <<1, 2, 4>>
        /\ callers[c].last = [kind |-> "network", status |-> 0]
        /\ [kind |-> "timeout", status |-> 0] \in callers[c].retried
        /\ [kind |-> "response", status |-> 429] \in callers[c].retried

(* ------------------------------- C8 ----------------------------------- *)
Exhausted(r) ==
    r.pc = "raised" /\ r.attempt = client.retries /\ r.answered = r.made

\* C8: when the attempts are exhausted the error raised is that of the final
\* attempt, whatever the earlier attempts gave: TimeoutError for a final
\* timeout, NetworkError for a final network failure, and for a final
\* non-successful response the classification of that response.
C8_FinalOutcomeDecides ==
    \A c \in Callers :
        LET r == callers[c] IN
        Exhausted(r)
            => /\ r.last.kind = "timeout" => r.error = "TimeoutError"
               /\ r.last.kind = "network" => r.error = "NetworkError"
               /\ r.last.kind = "response" => r.error = Classify(r.last.status)

\* the part of C8 that the code keeps: a TimeoutError or NetworkError of an
\* earlier attempt is never raised for a final response
NoRememberedError ==
    \A c \in Callers :
        LET r == callers[c] IN
        Exhausted(r)
            => /\ r.last.kind = "timeout" => r.error = "TimeoutError"
               /\ r.last.kind = "network" => r.error = "NetworkError"
               /\ r.last.kind = "response"
                     => r.error \in {Classify(r.last.status), "AttributeError"}

(* ------------------------------- C9 ----------------------------------- *)
\* C9: cancellation never leaves the refresh lock held. A caller cancelled
\* while it waited for the lock, awaited the refresh procedure, had a network
\* attempt outstanding or slept does not hold the lock; the lock is only held
\* by a caller that is awaiting the refresh procedure, and when there is none
\* the lock is free and every caller waiting for it can acquire it.
C9_CancelFreesLock ==
    /\ \A c \in Callers : c \in refresh_lock => callers[c].pc = "refreshing"
    /\ (\E c \in Callers : callers[c].pc = "cancelled")
          => \A d \in Callers :
                (/\ callers[d].pc = "acquire"
                 /\ \A e \in Callers : callers[e].pc # "refreshing")
                    => ENABLED Acquire(d)

\* a caller was cancelled while it awaited the refresh procedure, and another
\* caller got the lock afterwards and is refreshing
C9_Witness ==
    \E c, d \in Callers :
        /\ callers[c].pc = "cancelled"
        /\ callers[c].invoked = 1
        /\ ~callers[c].refresh_returned /\ ~callers[c].refresh_failed
        /\ callers[d].pc = "refreshing"
        /\ refresh_lock = {d}
        /\ refreshCalls = 2

(* ------------------------------- C10 ---------------------------------- *)
\* C10: a verb checks is_expired() before the request and, if it is true,
\* calls refresh() before it reads the auth headers; when refresh() raises
\* AuthenticationError the verb ends with that error, no network attempt and
\* no backoff sleep is made for the request, and the refresh is not tried
\* again.
C10_RefreshFailsFast ==
    \A c \in Callers :
        LET r == callers[c] IN
        r.mode = "request"
            => /\ r.pc \notin {"idle", "start"} => r.checked
               /\ r.prepared => (r.was_expired => r.refresh_returned)
               /\ r.made > 0 => r.prepared
               /\ (r.refresh_returned \/ r.refresh_failed) => r.was_expired
               /\ r.refresh_failed
                     => /\ r.pc = "raised"
                        /\ r.error = "AuthenticationError"
                        /\ ~r.prepared
                        /\ r.made = 0
                        /\ r.sleeps = <<>>
                        /\ r.invoked <= 1

\* the refresh procedure was invoked for a verb and failed
C10_Witness ==
    \E c \in Callers :
        /\ callers[c].mode = "request"
        /\ callers[c].refresh_failed
        /\ callers[c].invoked = 1
        /\ callers[c].pc = "raised"

(* ------------------------------- C11 ---------------------------------- *)
\* C11: no exception other than a taxonomy error (GotrsError or a subclass)
\* leaves a verb: whatever the transport did and whatever the body of the
\* response was, a verb that ended with an exception ended with a taxonomy
\* error, a final timeout with TimeoutError and a final network failure with
\* NetworkError.
C11_OnlyTaxonomyErrors ==
    \A c \in Callers :
        LET r == callers[c] IN
        (r.mode = "request" /\ r.pc = "raised")
            => /\ isinstance(r.error, "GotrsError")
               /\ r.last.kind = "timeout" => r.error = "TimeoutError"
               /\ r.last.kind = "network" => r.error = "NetworkError"

\* the part of C11 that the code keeps: timeouts and network failures of the
\* transport leave the verb as TimeoutError and NetworkError
TimeoutAndNetworkClassified ==
    \A c \in Callers :
        LET r == callers[c] IN
        (r.mode = "request" /\ r.pc = "raised")
            => /\ r.last.kind = "timeout" => r.error = "TimeoutError"
               /\ r.last.kind = "network" => r.error = "NetworkError"

(* ------------------------------- C12 ---------------------------------- *)
\* a verb other than download_file has ended
Ended == result # NoResult /\ call.verb # "download_file"

\* C12: for get/post/put/patch/delete/upload_file, whenever the parsed body
\* of the response is a mapping whose `success` field is false, the call has
\* raised a taxonomy error and has returned neither the body's `data` nor any
\* other value.
C12_FailedEnvelopeRaises ==
    (/\ Ended
     /\ response.body.shape = "mapping"
     /\ response.body.success = "false")
        => /\ result.outcome = "raised"
           /\ isinstance(result.exception.kind, "GotrsError")
           /\ result.of = "nothing"
           /\ result.value = NoValue

\* a 2xx envelope with success false and a data object the target shape
\* accepts: the call raised
C12_Witness ==
    /\ Ended
    /\ is_success(response.status_code)
    /\ response.body.success = "false"
    /\ response.body.data = [kind |-> "object", items |-> <<"valid">>]
    /\ call.model_class
    /\ result.outcome = "raised"
    /\ result.exception.kind = "GotrsError"

(* ------------------------------- C13 ---------------------------------- *)
\* a 2xx response whose body is an envelope with success false
FailedEnvelope ==
    /\ Ended
    /\ is_success(response.status_code)
    /\ response.body.shape = "mapping"
    /\ response.body.success = "false"

\* C13: when a 2xx response body is an envelope with `success` false, the
\* taxonomy error raised carries the envelope's `error` or `message` text as
\* its message (the `message` text when the envelope has only that field)
\* and the HTTP status of the response as status_code.
C13_EnvelopeErrorText ==
    FailedEnvelope
        => LET b == response.body
               texts == {b.error, b.message} \ {NoKey}
           IN  /\ result.outcome = "raised"
               /\ isinstance(result.exception.kind, "GotrsError")
               /\ result.exception.status_code = response.status_code
               /\ texts # {} => result.exception.message \in texts

\* the part of C13 that the code keeps: the `error` text, when there is one,
\* and the status of the response
EnvelopeErrorFieldAndStatus ==
    FailedEnvelope
        => /\ result.outcome = "raised"
           /\ result.exception.kind = "GotrsError"
           /\ result.exception.status_code = response.status_code
           /\ response.body.error # NoKey
                 => result.exception.message = response.body.error

(* ------------------------------- C14 ---------------------------------- *)
\* C14: when the response is successful and no target shape is requested:
\* an envelope with `success` true gives the value of its `data` field if it
\* has one and the whole body if it has none; a body that is not an envelope
\* (no `success` key, or not a mapping) is returned as parsed; a body that
\* cannot be parsed is returned as raw text.
C14_Unwrapping ==
    (Ended /\ is_success(response.status_code) /\ ~call.model_class)
        => LET b == response.body IN
           /\ (b.shape = "mapping" /\ b.success = "true" /\ b.data # NoValue)
                 => result = Returned("data", b.data, FALSE)
           /\ (b.shape = "mapping" /\ b.success = "true" /\ b.data = NoValue)
                 => result = Returned("body", b.value, FALSE)
           /\ (b.shape = "mapping" /\ b.success = NoKey)
                 => result = Returned("body", b.value, FALSE)
           /\ b.shape = "nonmapping"
                 => result = Returned("body", b.value, FALSE)
           /\ b.shape = "nonjson"
                 => result = Returned("text", NoValue, FALSE)

\* an envelope with success true and no data field: the whole body came back
C14_Witness ==
    /\ Ended
    /\ ~call.model_class
    /\ response.status_code = 201
    /\ response.body.success = "true"
    /\ response.body.data = NoValue
    /\ result.outcome = "returned"
    /\ result.of = "body"

(* ------------------------------- C15 ---------------------------------- *)
\* the value that a successful response unwraps to: the data field of an
\* envelope with success true, else the parsed body
Unwrapped(b) ==
    IF b.shape = "mapping" /\ b.success = "true" /\ b.data # NoValue
    THEN b.data
    ELSE IF b.shape = "nonmapping"
            \/ (b.shape = "mapping" /\ b.success \in {NoKey, "true"})
    THEN b.value
    ELSE NoValue

\* C15: when the construction of the requested target shape fails for the
\* unwrapped value, or for an element of an unwrapped list, the call raises
\* the taxonomy's ValidationError, no other exception type, and does not
\* return the unvalidated data.
C15_ValidationError ==
    (/\ Ended
     /\ is_success(response.status_code)
     /\ call.model_class
     /\ \E i \in DOMAIN Unwrapped(response.body).items :
           Unwrapped(response.body).items[i] = "invalid")
        => /\ result.outcome = "raised"
           /\ result.exception.kind = "ValidationError"

\* the part of C15 that the code keeps: the call ends with an exception and
\* returns nothing
ShapeFailureRaises ==
    (/\ Ended
     /\ is_success(response.status_code)
     /\ call.model_class
     /\ \E i \in DOMAIN Unwrapped(response.body).items :
           Unwrapped(response.body).items[i] = "invalid")
        => /\ result.outcome = "raised"
           /\ result.value = NoValue

(* ------------------------------- C16 ---------------------------------- *)
\* C16: is_expired() of a JWT/OAuth2 authenticator is true exactly when an
\* expiry is stored and current time + 60 seconds >= expiry (at exactly
\* expiry - 60s it is expired); with no expiry stored it is false for every
\* clock value; NoAuth and APIKeyAuth are never expired, and a verb never
\* calls their refresh.
C16_IsExpired ==
    /\ [](/\ is_expired(auth, now)
               <=> (/\ auth.auth_type \in {"jwt", "oauth2"}
                    /\ auth.expires_at # NoneVal
                    /\ now + 60 >= auth.expires_at)
          /\ \A c \in Callers :
                LET r == callers[c] IN
                (r.mode = "request" /\ auth.auth_type \in {"none", "api-key"})
                    => /\ ~r.was_expired
                       /\ ~r.refresh_returned /\ ~r.refresh_failed
                       /\ r.invoked = 0)
    /\ [][\A c \in Callers :
            (~callers[c].checked /\ callers'[c].checked)
                => callers'[c].was_expired
                       = (/\ auth.auth_type \in {"jwt", "oauth2"}
                          /\ auth.expires_at # NoneVal
                          /\ now + 60 >= auth.expires_at)]_vars

\* a verb found the credential expired at exactly expiry - 60s, after the
\* clock had moved, and awaits the refresh procedure
C16_Witness ==
    \E c \in Callers :
        /\ callers[c].mode = "request"
        /\ callers[c].was_expired
        /\ callers[c].pc = "refreshing"
        /\ now > 0
        /\ auth.expires_at = now + 60

(* ------------------------------- C17 ---------------------------------- *)
\* a response that is not successful has been surfaced
Surfaced == result # NoResult /\ ~is_success(response.status_code)

\* C17: a non-successful response that is surfaced is classified by its
\* status alone: 404 NotFoundError, 401 UnauthorizedError, 403
\* ForbiddenError, 429 RateLimitError, 500..599 ServerError, every other
\* status the generic GotrsError; one kind is raised per failure, and
\* UnauthorizedError and ForbiddenError are also AuthenticationError.
C17_ClassifiedByStatus ==
    Surfaced
        => LET s == response.status_code
               k == result.exception.kind
           IN  /\ result.outcome = "raised"
               /\ s = 404 <=> k = "NotFoundError"
               /\ s = 401 <=> k = "UnauthorizedError"
               /\ s = 403 <=> k = "ForbiddenError"
               /\ s = 429 <=> k = "RateLimitError"
               /\ (500 <= s /\ s <= 599) <=> k = "ServerError"
               /\ s \notin {404, 401, 403, 429} \cup 500..599
                     <=> k = "GotrsError"
               /\ s \in {401, 403} => isinstance(k, "AuthenticationError")
               /\ isinstance(k, "AuthenticationError") => s \in {401, 403}

\* the part of C17 that the code keeps: the classification of a response
\* whose body is a JSON mapping or is not JSON at all
ClassifiedByStatusUnlessNonMapping ==
    (Surfaced /\ response.body.shape # "nonmapping")
        => LET s == response.status_code
               k == result.exception.kind
           IN  /\ result.outcome = "raised"
               /\ s = 404 <=> k = "NotFoundError"
               /\ s = 401 <=> k = "UnauthorizedError"
               /\ s = 403 <=> k = "ForbiddenError"
               /\ s = 429 <=> k = "RateLimitError"
               /\ (500 <= s /\ s <= 599) <=> k = "ServerError"
               /\ s \notin {404, 401, 403, 429} \cup 500..599
                     <=> k = "GotrsError"
               /\ s \in {401, 403} <=> isinstance(k, "AuthenticationError")

(* ------------------------------- C18 ---------------------------------- *)
\* the machine code the taxonomy fixes for a status
FixedCode(s) ==
    IF s = 404 THEN "NOT_FOUND"
    ELSE IF s = 401 THEN "UNAUTHORIZED"
    ELSE IF s = 403 THEN "FORBIDDEN"
    ELSE IF s = 429 THEN "RATE_LIMITED"
    ELSE "SERVER_ERROR"

\* C18: every error raised for a 404, 401, 403, 429 or 5xx response carries
\* the status of that response and a fixed machine code: NOT_FOUND,
\* UNAUTHORIZED, FORBIDDEN, RATE_LIMITED, and for 5xx SERVER_ERROR unless
\* the body of the response supplies a `code` (a 5xx response whose body has
\* no `code` gives SERVER_ERROR).
C18_StatusAndCode ==
    (Surfaced /\ response.status_code \in {404, 401, 403, 429} \cup 500..599)
        => LET s == response.status_code
               b == response.body
           IN  /\ result.outcome = "raised"
               /\ result.exception.status_code = s
               /\ result.exception.code =
                     IF s >= 500 /\ b.code # NoKey THEN b.code
                     ELSE FixedCode(s)

\* the part of C18 that the code keeps, for a body that is a JSON mapping or
\* not JSON: the status, the fixed codes of 404, 401, 403 and 429, and the
\* body's code for 5xx when it has one
StatusAndCodeUnlessDefaulted ==
    (/\ Surfaced
     /\ response.status_code \in {404, 401, 403, 429} \cup 500..599
     /\ response.body.shape # "nonmapping")
        => LET s == response.status_code
               b == response.body
           IN  /\ result.outcome = "raised"
               /\ result.exception.status_code = s
               /\ s < 500 => result.exception.code = FixedCode(s)
               /\ (s >= 500 /\ b.code # NoKey)
                     => result.exception.code = b.code

\* what the code does for a 5xx response whose body has no `code`: the
\* error's code is the empty string
ServerErrorCodeEmpty ==
    (/\ Surfaced
     /\ response.status_code >= 500
     /\ response.body.shape # "nonmapping"
     /\ response.body.code = NoKey)
        => result.exception.code = ""

(* ------------------------------- C19 ---------------------------------- *)
\* C19: a 429 response that is surfaced raises RateLimitError whose
\* retry_after is the integer value of the Retry-After header when it parses
\* as an integer (30 for "30") and is absent when the header is missing or
\* malformed ("abc"); a malformed header causes no other error.
C19_RetryAfter ==
    (Surfaced /\ response.status_code = 429)
        => /\ result.outcome = "raised"
           /\ result.exception.kind = "RateLimitError"
           /\ response.retry_after = "30" => result.exception.retry_after = 30
           /\ response.retry_after \in {NoKey, "abc"}
                 => result.exception.retry_after = NoneVal

\* the part of C19 that the code keeps: the header's value in the
\* RateLimitError of a 429 whose body is a JSON mapping or not JSON
RetryAfterUnlessNonMapping ==
    (/\ Surfaced
     /\ response.status_code = 429
     /\ response.body.shape # "nonmapping")
        => /\ result.outcome = "raised"
           /\ result.exception.kind = "RateLimitError"
           /\ response.retry_after = "30" => result.exception.retry_after = 30
           /\ response.retry_after \in {NoKey, "abc"}
                 => result.exception.retry_after = NoneVal

(* ------------------------------- C20 ---------------------------------- *)
\* refresh() of the authenticator was called by c, directly or by a verb
CalledRefresh(r) ==
    /\ r.pc \notin {"idle", "start"}
    /\ r.mode = "refresh" \/ r.was_expired

\* C20: refresh() of a JWT/OAuth2 authenticator that has no refresh token or
\* no refresh procedure raises AuthenticationError, invokes no refresh
\* procedure, does not acquire (or wait for) the refresh lock, and leaves
\* token, refresh token and expiry as they were.
C20_RefreshNotConfigured ==
    /\ [](\A c \in Callers :
            LET r == callers[c] IN
            (/\ auth.auth_type \in {"jwt", "oauth2"}
             /\ ~auth.refresh_function \/ auth.refresh_token = NoneVal
             /\ CalledRefresh(r))
                => /\ r.pc = "raised"
                   /\ r.error = "AuthenticationError"
                   /\ r.invoked = 0 /\ refreshCalls = 0
                   /\ refresh_lock = {}
                   /\ r.made = 0)
    /\ [][(/\ auth.auth_type \in {"jwt", "oauth2"}
           /\ ~auth.refresh_function \/ auth.refresh_token = NoneVal)
             => /\ auth' = auth
                /\ refresh_lock' = {}
                /\ \A c \in Callers :
                      callers'[c].pc \notin {"acquire", "refreshing"}]_vars

\* a verb on an expired credential that has a refresh procedure but no
\* refresh token ended with the error of refresh()
C20_Witness ==
    \E c \in Callers :
        /\ auth.auth_type = "oauth2"
        /\ auth.refresh_function /\ auth.refresh_token = NoneVal
        /\ callers[c].mode = "request"
        /\ callers[c].was_expired
        /\ callers[c].refresh_failed
        /\ callers[c].pc = "raised"
        /\ callers[c].invoked = 0

(* ------------------------------- C21 ---------------------------------- *)
\* C21: a successful refresh of an expired authenticator sets the access
\* token to the result's access_token, the refresh token to the result's
\* refresh_token if the result has one and to the previous refresh token if
\* not, the expiry to the result's expires_at if the result has one and to
\* the previous expiry if not; a result without access_token makes refresh()
\* fail with AuthenticationError.
C21_RefreshApplied ==
    applied.done =>
        LET res == applied.result
            before == applied.before
        IN  /\ applied.error = "None" =>
                  /\ ~res.raises
                  /\ res.access_token # Absent
                  /\ auth.token = res.access_token
                  /\ auth.refresh_token =
                         IF res.refresh_token # Absent THEN res.refresh_token
                         ELSE before.refresh_token
                  /\ auth.expires_at =
                         IF res.expires_at # Absent THEN res.expires_at
                         ELSE before.expires_at
            /\ (~res.raises /\ res.access_token = Absent)
                  => applied.error = "AuthenticationError"
            /\ (/\ ~res.raises
                /\ res.access_token # Absent
                /\ res.expires_at # Unparsable)
                  => applied.error = "None"

\* a result that holds only access_token was applied: the new token with
\* the previous refresh token and expiry
C21_Witness ==
    /\ applied.done
    /\ applied.error = "None"
    /\ applied.result.refresh_token = Absent
    /\ applied.result.expires_at = Absent
    /\ auth.token = 1
    /\ auth.refresh_token = InitialToken
    /\ auth.expires_at = applied.before.expires_at

(* ------------------------------- C22 ---------------------------------- *)
JsonContentType == HeaderValue("application/json", NoneVal)

\* the header the credential of an authenticator is sent in, and its value
CredentialName(a) ==
    IF a.auth_type = "api-key" THEN a.header_name ELSE "Authorization"
CredentialValue(a) ==
    IF a.auth_type = "api-key" THEN HeaderValue("key", a.token)
    ELSE IF a.auth_type = "jwt" THEN HeaderValue("Bearer", a.token)
    ELSE HeaderValue(a.token_type, a.token)

field(n) ==
    IF n = "Content-Type" THEN "content-type"
    ELSE IF n = "Authorization" THEN "authorization"
    ELSE n

\* C23: the headers that upload_file passes to the transport never contain
\* a Content-Type header, for any headers of the caller and any
\* authenticator.
C23_NoContentType ==
    (request.pc = "prepared" /\ request.verb = "upload_file")
        => \A n \in HeaderNames :
              field(n) = "content-type"
                  => request.request_headers[n] = NoHeader

\* the part of C23 that the code keeps: the key spelled Content-Type is
\* removed, whoever set it, and no other key is
UploadStripsExactKey ==
    (request.pc = "prepared" /\ request.verb = "upload_file")
        => /\ request.request_headers["Content-Type"] = NoHeader
           /\ \A n \in HeaderNames \ {"Content-Type"} :
                 request.request_headers[n] = request.final_headers[n]

\* a content-type header in another spelling reaches the transport
ContentTypeSurvives ==
    (/\ request.pc = "prepared"
     /\ request.verb = "upload_file"
     /\ request.headers["content-type"] # NoHeader)
        => request.request_headers["content-type"]
               = request.headers["content-type"]

EveryExitCloses ==
    /\ lifecycle.aclose_calls = Len(lifecycle.exits) + lifecycle.close_calls
    /\ lifecycle.exits # <<>> => lifecycle.released >= 1

\* one release only if the library ignores a repeated aclose()
ReleasedOnceIfIdempotent ==
    lifecycle.idempotent => lifecycle.released <= 1

(* ------------------------------- C25 ---------------------------------- *)
\* C25: download_file returns the raw bytes of every successful (2xx)
\* response, without unwrapping and without validation, and raises a
\* classified error whenever the final response is not successful; it never
\* returns the bytes of a response that is not successful.
C25_DownloadFile ==
    (call.verb = "download_file" /\ result # NoResult)
        => IF is_success(response.status_code)
           THEN result = Returned("content", NoValue, FALSE)
           ELSE /\ result.outcome = "raised"
                /\ result.exception.kind \in Taxonomy

\* the part of C25 that the code keeps: content for every 2xx, an exception
\* for every other response, classified unless the body is JSON that is not
\* a mapping
DownloadUnlessNonMapping ==
    (call.verb = "download_file" /\ result # NoResult)
        => IF is_success(response.status_code)
           THEN result = Returned("content", NoValue, FALSE)
           ELSE /\ result.outcome = "raised"
                /\ response.body.shape # "nonmapping"
                      => result.exception.kind = Classify(response.status_code)
                /\ response.body.shape = "nonmapping"
                      => result.exception.kind = "AttributeError"

(* ------------------------------- C26 ---------------------------------- *)
IsPrefix(s, t) == Len(s) <= Len(t) /\ SubSeq(t, 1, Len(s)) = s

\* C26: the path is resolved strictly relative to the base URL: the base is
\* a directory whose trailing slash is normalized, a leading slash of the
\* path is ignored (/a/b and a/b against https://x.test both give
\* https://x.test/a/b), and for every path the URL starts with the base URL
\* followed by "/": no path overrides the base's scheme, host or directory.
C26_BaseRelative ==
    request.pc = "prepared" =>
        /\ ~client.base_url.slash
        /\ request.url = build_url(client.base_url, lstrip(request.path))
        /\ request.url.origin = client.base_url.origin
        /\ IsPrefix(client.base_url.dir, request.url.segments)

\* the part of C26 that the code keeps: whatever the leading slashes, a path
\* without a scheme and without ".." is appended to the base's directory
UrlInsideBaseWithoutSchemeAndDots ==
    (/\ request.pc = "prepared"
     /\ ~request.path.absolute
     /\ \A i \in DOMAIN request.path.segments :
           request.path.segments[i] # "..")
        => /\ ~client.base_url.slash
           /\ request.url =
                  [origin |-> client.base_url.origin,
                   segments |-> client.base_url.dir \o request.path.segments]

\* a path with a scheme replaces the base
SchemeOverridesBase ==
    (request.pc = "prepared" /\ request.path.absolute)
        => request.url.origin = OtherOrigin

(* ------------------------------- C27 ---------------------------------- *)
ConfigurationFields == {"base_url", "timeout", "retries", "user_agent", "debug"}

\* C27: base URL, timeout, retry count, user-agent and debug flag are never
\* changed by a verb, by header preparation, by a refresh or by set_auth;
\* the only attribute of the engine that changes after construction is the
\* active authenticator, and only set_auth changes it.
C27_ConfigurationFrame ==
    [][/\ \A f \in ConfigurationFields : client'[f] = client[f]
       /\ client'.auth # client.auth
             => /\ request' = request
                /\ refreshCalls' = refreshCalls]_vars

\* set_auth was called, then a verb refreshed the new credential and
\* prepared its request
C27_Witness ==
    /\ client.auth = "set"
    /\ request.pc = "prepared"
    /\ refreshCalls = 1
    /\ auth.token = 1

\* the engine with callers, retries and refreshes keeps every attribute
ClientUnchanged == [][client' = client]_vars

(* ------------------------------- C28 ---------------------------------- *)
\* C28: token, refresh token and expiry of an authenticator are changed only
\* by refresh(): get_auth_headers() and is_expired() leave them as they are
\* and never block, refresh() of NoAuth and APIKeyAuth changes nothing, and
\* refresh() never changes the refresh procedure or the OAuth2 token type.
C28_CredentialFrame ==
    [][/\ auth' # auth
             => /\ Refreshable(auth)
                /\ \E c \in Callers :
                      /\ callers[c].pc = "refreshing"
                      /\ callers'[c].pc # "refreshing"
                      /\ callers'[c].refresh_returned
                            \/ callers'[c].refresh_failed
       /\ auth'.auth_type = auth.auth_type
       /\ auth'.refresh_function = auth.refresh_function
       /\ auth'.token_type = auth.token_type
       /\ auth'.header_name = auth.header_name
       /\ \A c \in Callers :
             (/\ callers[c].pc = "start"
              /\ callers'[c].pc # "start"
              /\ callers[c].mode = "request"
              /\ ~is_expired(auth, now))
                 => /\ callers'[c].checked
                    /\ callers'[c].prepared
                    /\ callers'[c].headers = get_auth_headers(auth)
                    /\ auth' = auth
       /\ \A c \in Callers :
             (/\ callers[c].pc = "start"
              /\ callers'[c].pc # "start"
              /\ callers[c].mode = "refresh"
              /\ ~Refreshable(auth))
                 => /\ callers'[c].pc = "returned"
                    /\ auth' = auth]_vars

\* a verb found the credential expired, refresh() replaced the token, and
\* the headers were read from the new credential
C28_Witness ==
    \E c \in Callers :
        /\ callers[c].mode = "request"
        /\ callers[c].was_expired
        /\ callers[c].refresh_returned
        /\ callers[c].prepared
        /\ auth.token # InitialToken
        /\ callers[c].headers = auth.token

(* ------------------------------- C29 ---------------------------------- *)
\* the error a raised verb got from the latest outcome of its attempts
DerivedFrom(r) ==
    \/ /\ r.last.kind = "response"
       /\ ~is_success(r.last.status)
       /\ r.error \in {Classify(r.last.status), "AttributeError"}
    \/ r.last.kind = "timeout" /\ r.error = "TimeoutError"
    \/ r.last.kind = "network" /\ r.error = "NetworkError"
    \/ r.last.kind = "transport" /\ r.error = "httpx.TransportError"

\* C29: the generic 'Request failed after all retry attempts' error is
\* raised exactly when the attempts are exhausted, no response was obtained
\* and no transport exception was captured; a request that made at least
\* one attempt ends with a returned response or with an error derived from
\* an attempt's outcome, never with the generic error.
C29_GenericError ==
    \A c \in Callers :
        LET r == callers[c] IN
        /\ r.generic <=> /\ r.prepared
                         /\ r.pc = "raised"
                         /\ r.made = client.retries + 1
                         /\ r.answered = r.made
                         /\ r.last_exception = "None"
                         /\ r.last.kind \notin {"response", "transport"}
        /\ r.generic => r.error = "GotrsError"
        /\ r.made >= 1 =>
              /\ ~r.generic
              /\ r.pc = "returned"
                    => /\ r.last.kind = "response"
                       /\ is_success(r.last.status)
                       /\ r.response = r.last.status
              /\ r.pc = "raised" => DerivedFrom(r)

\* a client constructed with retries = -1: range(self.retries + 1) is empty,
\* the verb made no attempt and raised the generic error
C29_Witness ==
    \E c \in Callers :
        /\ client.retries = -1
        /\ callers[c].generic
        /\ callers[c].pc = "raised"
        /\ callers[c].made = 0

C31_AllOrNothing ==
    (applied.done /\ applied.error = "AuthenticationError")
        => auth = applied.before

\* the part of C31 that the code keeps: a procedure that raises, or a result
\* without access_token, changes nothing
FailureBeforeAssignmentKeepsCredential ==
    (/\ applied.done
     /\ applied.result.raises \/ applied.result.access_token = Absent)
        => /\ applied.error = "AuthenticationError"
           /\ auth = applied.before

\* an expires_at that cannot be parsed fails after token and refresh token
\* were assigned, and leaves the old expiry
UnparsableExpiryKeepsAssignments ==
    (/\ applied.done
     /\ ~applied.result.raises
     /\ applied.result.access_token # Absent
     /\ applied.result.expires_at = Unparsable)
        => /\ applied.error = "AuthenticationError"
           /\ auth.token = applied.result.access_token
           /\ auth.token # applied.before.token
           /\ auth.expires_at = applied.before.expires_at

(* ------------------------------- C32 ---------------------------------- *)
\* c's header preparation completes in this step
Prepares(c) == ~callers[c].prepared /\ callers'[c].prepared

\* C32: whenever header preparation completes without error, the headers it
\* returns come from a credential for which is_expired() is false at that
\* moment, also after a refresh whose result has no expires_at or an expiry
\* within the buffer.
C32_HeadersFromFreshCredential ==
    [][\A c \in Callers : Prepares(c) => ~is_expired(auth', now')]_vars

\* the part of C32 that the code keeps: the headers are read after the
\* expiry check and, if it was positive, after a refresh() that returned;
\* they come from an expired credential only when that refresh kept the old
\* expiry or set one that is within the buffer
ExpiredHeadersOnlyAfterRefresh ==
    [][\A c \in Callers :
          Prepares(c) =>
              /\ callers'[c].checked
              /\ callers'[c].headers = get_auth_headers(auth')
              /\ callers'[c].was_expired => callers'[c].refresh_returned
              /\ is_expired(auth', now') =>
                    /\ callers'[c].was_expired
                    /\ callers[c].pc = "refreshing"
                    /\ \/ auth'.expires_at = auth.expires_at
                       \/ auth'.expires_at \in IssuedExpiries]_vars

(* ------------------------------- C33 ---------------------------------- *)
\* C33: when the refresh procedure fails for the caller that holds the
\* lock, only that caller gets AuthenticationError and the lock is released;
\* each caller that waited for the lock finds the credential still expired
\* and invokes the refresh procedure itself, so with N concurrent callers
\* and a failing refresh procedure the procedure is invoked N times and
\* every caller gets its own AuthenticationError.
C33_EachCallerFailsItself ==
    /\ \A c \in Callers :
          callers[c].refresh_failed
              => /\ callers[c].pc = "raised"
                 /\ callers[c].error = "AuthenticationError"
                 /\ callers[c].invoked = 1
                 /\ c \notin refresh_lock
    /\ (/\ \A c \in Callers :
              /\ CalledRefresh(callers[c])
              /\ callers[c].pc \notin {"acquire", "refreshing", "cancelled"}
              /\ ~callers[c].refresh_returned)
          => /\ refreshCalls = NumCallers
             /\ refresh_lock = {}
             /\ \A c \in Callers :
                   callers[c].refresh_failed /\ callers[c].invoked = 1

\* all callers were inside refresh() at the same time and each of them
\* invoked the refresh procedure and got its own error
C33_Witness ==
    /\ allInside
    /\ refreshCalls = NumCallers
    /\ refresh_lock = {}
    /\ \A c \in Callers :
          /\ callers[c].refresh_failed
          /\ callers[c].invoked = 1
          /\ callers[c].error = "AuthenticationError"

(* ------------------------------- C34 ---------------------------------- *)
\* the caller is inside refresh(): it waits for the lock or holds it
InRefresh(c) == callers[c].pc \in {"acquire", "refreshing"}

\* C34: refresh is deadlock-free: provided every invocation of the refresh
\* procedure terminates when run on its own, every caller of refresh()
\* eventually returns or raises and the lock is eventually free, including
\* when the refresh procedure itself issues a request through the same
\* client, whose authenticator is the one being refreshed.
C34_RefreshDeadlockFree ==
    /\ \A c \in Callers : InRefresh(c) ~> ~InRefresh(c)
    /\ ~LockFree ~> LockFree

\* when no refresh procedure calls a verb of the client, every caller
\* leaves refresh() and the lock becomes free
DeadlockFreeWithoutReentry ==
    [](\A c \in Callers : ~callers[c].reentered) => C34_RefreshDeadlockFree

\* a lock holder waits for the lock it holds
HolderWaitsForItself ==
    \E c \in Callers : c \in refresh_lock /\ callers[c].pc = "acquire"

\* nothing wakes a holder that waits for its own lock
SelfWaitIsForever ==
    [][\A c \in Callers :
          (c \in refresh_lock /\ callers[c].pc = "acquire")
              => (c \in refresh_lock' /\ callers'[c].pc = "acquire")]_vars

(* ------------------------------- C35 ---------------------------------- *)
\* C35: the auth headers are computed once per logical request, before the
\* first attempt, and every attempt sends the same headers: the retry loop
\* never calls is_expired() or refresh(), so neither a credential that
\* expires during backoff, nor a refresh completed by another request, nor
\* a 401 response changes the headers of later attempts or starts a
\* refresh.
C35_HeadersComputedOnce ==
    \A c \in Callers :
        LET r == callers[c] IN
        /\ r.made >= 1 => r.prepared /\ r.sent = {r.headers}
        /\ r.made = 0 => r.sent = {}
        /\ r.prepared =>
              /\ r.pc \notin {"start", "acquire", "refreshing"}
              /\ r.checked
              /\ ~r.was_expired => r.invoked = 0 /\ ~r.refresh_returned
              /\ r.was_expired => r.invoked <= 1 /\ r.refresh_returned

\* a request prepared its headers while the credential was good; the
\* credential expired, another caller refreshed it, and the request's
\* second attempt still went out with the headers of the first
C35_Witness ==
    \E c \in Callers :
        /\ callers[c].made = 2
        /\ ~callers[c].was_expired
        /\ callers[c].invoked = 0
        /\ callers[c].sent = {InitialToken}
        /\ auth.token # InitialToken
        /\ refreshCalls >= 1

\* a 401 answer to the second attempt, after the credential expired during
\* the backoff, ended the request without a refresh
UnauthorizedStartsNoRefresh ==
    \A c \in Callers :
        (/\ callers[c].prepared
         /\ callers[c].last.kind = "response"
         /\ callers[c].last.status = 401
         /\ callers[c].answered = callers[c].made)
            => /\ callers[c].pc = "raised"
               /\ callers[c].sent = {callers[c].headers}
               /\ ~callers[c].was_expired => refreshCalls = 0

ExpiredThenUnauthorized ==
    \E c \in Callers :
        /\ callers[c].made = 2
        /\ ~callers[c].was_expired
        /\ is_expired(auth, now)
        /\ callers[c].last.status = 401
        /\ callers[c].pc = "raised"
        /\ refreshCalls = 0

(* ------------------------------- C36 ---------------------------------- *)
\* the verb has returned a response or raised an error
Terminated(r) == r.pc \in {"returned", "raised"}

\* len(range(self.retries + 1))
RangeLen(retries) == IF retries + 1 > 0 THEN retries + 1 ELSE 0

\* C36: every logical request terminates: when each network call and each
\* sleep completes, the retry loop reaches a returned response or a raised
\* error after at most retries + 1 attempts, whatever the transport's
\* outcomes are, and once it has, it makes no further attempt and sleeps no
\* more.
C36_EveryRequestTerminates ==
    /\ <>(\A c \in Callers :
             callers[c].pc # "idle" => Terminated(callers[c]))
    /\ [](\A c \in Callers :
             /\ callers[c].made <= RangeLen(client.retries)
             /\ Len(callers[c].sleeps) <= callers[c].made
             /\ Terminated(callers[c])
                   => callers[c].inflight = 0 /\ callers[c].timers = 0)
    /\ [][\A c \in Callers :
             Terminated(callers[c]) => callers'[c] = callers[c]]_vars

\* a request ended after as many attempts as the configuration allows, each
\* but the last followed by a sleep
C36_Witness ==
    \E c \in Callers :
        /\ Terminated(callers[c])
        /\ client.retries = MaxRetries
        /\ callers[c].made = MaxRetries + 1
        /\ Len(callers[c].sleeps) = MaxRetries
        /\ callers[c].answered = callers[c].made

(* ------------------------------- C37 ---------------------------------- *)
\* C37: when a target shape is requested, every value a verb returns is an
\* instance of the shape or a sequence of instances; unparsed response
\* text, a null data field or the raw mapping is never returned in place of
\* an instance.
C37_OnlyInstancesReturned ==
    (Ended /\ call.model_class /\ result.outcome = "returned")
        => /\ result.validated
           /\ result.value.kind \in {"object", "list"}
           /\ \A i \in DOMAIN result.value.items :
                 result.value.items[i] \in {"Model(valid)", "Model(other)"}

\* the part of C37 that the code keeps: what is returned without validation
\* is the text of a body that is not JSON, or null; a mapping or a list is
\* returned as instances or not at all
UnvalidatedOnlyTextOrNull ==
    (Ended /\ call.model_class /\ result.outcome = "returned")
        => IF response.body.shape = "nonjson"
           THEN result = Returned("text", NoValue, FALSE)
           ELSE IF Unwrapped(response.body).kind = "null"
           THEN /\ ~result.validated
                /\ result.value.kind = "null"
           ELSE /\ result.validated
                /\ \A i \in DOMAIN result.value.items :
                      result.value.items[i] \in {"Model(valid)", "Model(other)"}

(* ------------------------------- C38 ---------------------------------- *)
\* C38: the only responses that are retried are those with status 429 or a
\* status >= 500: a response that is not successful and has another status
\* (also a 1xx or 3xx status) is raised at once as a classified error, with
\* no backoff sleep and no further attempt.
C38_OnlyRateLimitAndServerRetried ==
    \A c \in Callers :
        /\ \A o \in callers[c].retried :
              o.kind = "response" => o.status = 429 \/ o.status >= 500
        /\ (/\ callers[c].last.kind = "response"
            /\ ~is_success(callers[c].last.status)
            /\ callers[c].last.status # 429
            /\ callers[c].last.status < 500
            /\ callers[c].answered = callers[c].made)
              => /\ callers[c].pc = "raised"
                 /\ callers[c].error \in Taxonomy

\* the part of C38 that the code keeps: a 4xx response other than 429 is
\* never followed by a sleep or another attempt
ClientErrorsNotRetried ==
    \A c \in Callers :
        /\ \A o \in callers[c].retried :
              o.kind = "response"
                  => o.status = 429 \/ o.status >= 500 \/ o.status < 400
        /\ (/\ callers[c].last.kind = "response"
            /\ 400 <= callers[c].last.status
            /\ callers[c].last.status < 500
            /\ callers[c].last.status # 429
            /\ callers[c].answered = callers[c].made)
              => callers[c].pc = "raised"

\* a response with a status below 400 that is not successful is retried
\* like a 5xx response while attempts remain
RedirectRetried ==
    \A c \in Callers :
        (/\ callers[c].last.kind = "response"
         /\ callers[c].last.status = 304
         /\ callers[c].answered = callers[c].made
         /\ callers[c].attempt < client.retries
         /\ callers[c].pc # "cancelled")
            => /\ callers[c].pc = "sleep"
               /\ callers[c].last \in callers[c].retried

(* ------------------------------- C39 ---------------------------------- *)
\* the latest outcome of the caller is a 429 response
RateLimitedLast(r) == r.last.kind = "response" /\ r.last.status = 429

\* C39: the backoff delay after a 429 response depends only on the attempt
\* index (2^attempt): the value of the response's Retry-After header never
\* changes the delay or the number of attempts, and it is reported only on
\* the RateLimitError raised when the retries are exhausted.
C39_RetryAfterOnlyReported ==
    \A c \in Callers :
        LET r == callers[c] IN
        /\ r.sleeps = Delays(Len(r.sleeps))
        /\ RateLimitedLast(r) /\ r.pc = "sleep"
              => Len(r.sleeps) = r.attempt + 1
        /\ RateLimitedLast(r) /\ r.pc = "raised"
              => /\ r.made = client.retries + 1
                 /\ Len(r.sleeps) = client.retries
                 /\ r.error \in {"RateLimitError", "AttributeError"}
                 /\ r.error = "RateLimitError"
                       => r.reported = IF r.retry_after = "30" THEN 30
                                       ELSE NoneVal
        /\ r.reported # NoneVal
              => /\ RateLimitedLast(r)
                 /\ r.pc = "raised"
                 /\ r.error = "RateLimitError"
                 /\ ~AttemptsRemain(r, client.retries)

\* every attempt was answered 429, the last answer with "Retry-After: 30":
\* the delays were 1, 2, 4, ... and the error reports 30
C39_Witness ==
    \E c \in Callers :
        /\ callers[c].pc = "raised"
        /\ callers[c].error = "RateLimitError"
        /\ callers[c].reported = 30
        /\ client.retries = MaxRetries
        /\ callers[c].made = MaxRetries + 1
        /\ callers[c].sleeps = Delays(MaxRetries)
        /\ callers[c].retried = {Seen(Response(429, "mapping"))}

\* a 429 response with "Retry-After: 30" was followed by the sleep of the
\* attempt index
RetryAfterIgnoredBySleep ==
    \E c \in Callers :
        /\ callers[c].pc = "sleep"
        /\ callers[c].retry_after = "30"
        /\ callers[c].attempt = 1
        /\ callers[c].sleeps = <<1, 2>>

(* ------------------------------- C40 ---------------------------------- *)
\* C40: when set_auth swaps the active authenticator while a request is
\* suspended in header preparation, awaiting refresh() of the previous
\* authenticator, the headers of that request come from the authenticator
\* whose expiry was checked and refreshed, never from one whose expiry was
\* not checked for that request.
C40_HeadersFromCheckedAuthenticator ==
    request.pc = "prepared" => request.source = request.checked

\* the headers are those of the authenticator that is active when
\* _prepare_headers returns
HeadersFromActiveAuthenticator ==
    request.pc = "prepared"
        => /\ request.source = client.auth
           /\ request.final_headers = prepare_headers(request.headers, auth)

\* a request went out with the headers of an expired credential that was
\* swapped in during its refresh, while the refreshed one is left unused
SwappedInExpired ==
    /\ request.pc = "prepared"
    /\ request.source # request.checked
    /\ is_expired(auth, now)
    /\ ~is_expired(request.previous, now)
    /\ request.final_headers
          # prepare_headers(request.headers, request.previous)

====
